---- MODULE Spec2Model ----
(***************************************************************************)
(* Half-edge mesh of MeshLib (CBaseMesh / CDynamicMesh).                   *)
(*                                                                         *)
(* Objects live in four heaps (vert, hedge, edge, face); a reference is    *)
(* the index of the object in its heap and NULL is 0.  The mesh container  *)
(* keeps the lists m_verts, m_edges, m_faces, m_halfedges, the id maps and *)
(* the two id counters of the dynamic editor.  Every operation of the      *)
(* library is a function from a mesh record to a mesh record, written in   *)
(* the order of the statements of the source; an action applies one        *)
(* operation to the current mesh.                                          *)
(*                                                                         *)
(* A NULL dereference ends the process: status becomes "crashed" and no    *)
(* further operation runs.  Undefined behaviour whose outcome depends on   *)
(* the build (the vector-as-list cast of swapEdge, a read of freed memory) *)
(* is an input `ub` of the operation, chosen by the action.                *)
(***************************************************************************)
EXTENDS Integers, Sequences, FiniteSets, TLC

NULL == 0

\* ---------------------------------------------------------------- bounds
MaxEdit == 2
MaxDelete == 1
MaxCall == 2
MaxLoops == 4
MaxLength == 3
MaxMarkers == 3
MaxSwap == 4
MaxMutate == 1

\* ---------------------------------------------------------------- inputs
\* Triangle soups handed to the loader: number of vertices and the ordered
\* vertex-id triples of the face records (consistently oriented, manifold).
Tetra == [nv |-> 4, fs |-> << <<1, 2, 3>>, <<1, 3, 4>>, <<1, 4, 2>>, <<2, 4, 3>> >>]
Quad == [nv |-> 4, fs |-> << <<1, 2, 3>>, <<1, 3, 4>> >>]
Flaps == [nv |-> 6, fs |-> << <<1, 2, 3>>, <<2, 1, 4>>, <<3, 2, 5>>, <<1, 3, 6>> >>]
Soups == {Tetra, Quad, Flaps}

\* Inputs of the construction interface: two separate triangles, a third face
\* on an edge that already has two, a face record naming a vertex id that no
\* vertex record defines, and a vertex no face uses.
TwoTris == [nv |-> 6, fs |-> << <<1, 2, 3>>, <<4, 5, 6>> >>]
Fin == [nv |-> 5, fs |-> << <<1, 2, 3>>, <<2, 1, 4>>, <<1, 2, 5>> >>]
Broken == [nv |-> 3, fs |-> << <<1, 2, 3>>, <<1, 3, 4>> >>]
Lone == [nv |-> 4, fs |-> << <<1, 2, 3>> >>]
SoupsApi == {Tetra, Quad, TwoTris, Fin, Broken, Lone}
NoSoup == [nv |-> 0, fs |-> <<>>]

VARIABLES
    vert,           \* heap of CVertex objects
    hedge,          \* heap of CHalfEdge objects
    edge,           \* heap of CEdge objects
    face,           \* heap of CFace objects
    freed,          \* objects released with delete, per heap
    m_verts,        \* CBaseMesh::m_verts
    m_edges,        \* CBaseMesh::m_edges
    m_faces,        \* CBaseMesh::m_faces
    m_halfedges,    \* CBaseMesh::m_halfedges
    m_map_vert,     \* CBaseMesh::m_map_vert
    m_map_face,     \* CBaseMesh::m_map_face
    m_vertex_id,    \* CDynamicMesh::m_vertex_id
    m_face_id,      \* CDynamicMesh::m_face_id
    status,         \* "ok" while the process runs, "crashed" after a fault
    ndebug,         \* build configuration: TRUE when assert() is compiled out
    soup,           \* the input handed to the loader
    vid,            \* loader: id of the next vertex record
    fid,            \* loader: id of the next face record
    last,           \* the last call: operation, argument, and the mesh it was called on
    nEdit,          \* number of dynamic-editor calls made
    nDelete,        \* number of delete_face calls made
    nCall,          \* number of direct construction and query calls made
    m_loops         \* CBoundary::m_loops of the boundary object built last

meshVars == <<vert, hedge, edge, face, freed, m_verts, m_edges, m_faces, m_halfedges,
              m_map_vert, m_map_face, m_vertex_id, m_face_id, status>>
vars == <<vert, hedge, edge, face, freed, m_verts, m_edges, m_faces, m_halfedges,
          m_map_vert, m_map_face, m_vertex_id, m_face_id, status,
          ndebug, soup, vid, fid, last, nEdit, nDelete, nCall, m_loops>>

\* The mesh as one value, the argument and result of every operation.
Cur ==
    [vert |-> vert, hedge |-> hedge, edge |-> edge, face |-> face, freed |-> freed,
     m_verts |-> m_verts, m_edges |-> m_edges, m_faces |-> m_faces,
     m_halfedges |-> m_halfedges, m_map_vert |-> m_map_vert, m_map_face |-> m_map_face,
     m_vertex_id |-> m_vertex_id, m_face_id |-> m_face_id, status |-> status]

Commit(M) ==
    /\ vert' = M.vert
    /\ hedge' = M.hedge
    /\ edge' = M.edge
    /\ face' = M.face
    /\ freed' = M.freed
    /\ m_verts' = M.m_verts
    /\ m_edges' = M.m_edges
    /\ m_faces' = M.m_faces
    /\ m_halfedges' = M.m_halfedges
    /\ m_map_vert' = M.m_map_vert
    /\ m_map_face' = M.m_map_face
    /\ m_vertex_id' = M.m_vertex_id
    /\ m_face_id' = M.m_face_id
    /\ status' = M.status

\* The process faults inside an operation called on M0: nothing of the
\* operation's partial work is observable afterwards.
Crash(M0) == [M0 EXCEPT !.status = "crashed"]

\* ------------------------------------------------------- sequence helpers
Range(s) == {s[i] : i \in 1..Len(s)}

RECURSIVE RemoveAll(_, _)
RemoveAll(s, x) ==
    IF s = <<>> THEN <<>>
    ELSE IF Head(s) = x THEN RemoveAll(Tail(s), x)
    ELSE <<Head(s)>> \o RemoveAll(Tail(s), x)

\* std::map::insert: keeps the entry already stored under the key.
MapInsert(m, k, v) ==
    IF k \in DOMAIN m THEN m ELSE [x \in DOMAIN m \cup {k} |-> IF x = k THEN v ELSE m[x]]

\* -------------------------------------------------------- CHalfEdge / CEdge
target(M, h) == M.hedge[h].m_vertex
source(M, h) == M.hedge[M.hedge[h].m_prev].m_vertex
next(M, h) == M.hedge[h].m_next
prev(M, h) == M.hedge[h].m_prev
other(M, e, h) == IF h # M.edge[e].m_halfedge[0] THEN M.edge[e].m_halfedge[0]
                  ELSE M.edge[e].m_halfedge[1]
dual(M, h) == other(M, M.hedge[h].m_edge, h)

NewVertex(id) ==
    [m_id |-> id, m_halfedge |-> NULL, m_boundary |-> FALSE, m_ledges |-> <<>>,
     m_halfedges |-> <<>>, m_edges |-> <<>>, m_vertices |-> <<>>, edgesIntact |-> TRUE]
NewHalfEdge ==
    [m_edge |-> NULL, m_vertex |-> NULL, m_prev |-> NULL, m_next |-> NULL, m_face |-> NULL]
NewEdge == [m_halfedge |-> [i \in {0, 1} |-> NULL]]
NewFace(id) ==
    [m_id |-> id, m_halfedge |-> NULL,
     m_halfedges |-> <<>>, m_vertices |-> <<>>, m_edges |-> <<>>]

\* ------------------------------------------------------------ sequencing
\* body with x naming the value of e.
Let(e, body(_)) == CHOOSE r \in {body(x) : x \in {e}} : TRUE

\* The next statement of a member function: it runs on the mesh the
\* statements before it left, unless the process has ended there.
Then(M, stmt(_)) == Let(M, LAMBDA x : IF x.status = "ok" THEN stmt(x) ELSE x)

\* What a call on M0 leaves: the mesh M its statements produced, or, when the
\* process ended inside the call, M0 with the way it ended.
Outcome(M0, M) == Let(M, LAMBDA x : IF x.status = "ok" THEN x ELSE [M0 EXCEPT !.status = x.status])

\* ------------------------------------------------------------ create_vertex
create_vertex(M, id) ==
    LET v == Len(M.vert) + 1
    IN  [M EXCEPT !.vert = Append(M.vert, NewVertex(id)),
                  !.m_verts = Append(M.m_verts, v),
                  !.m_map_vert = MapInsert(M.m_map_vert, id, v)]

\* -------------------------------------------------------------- create_edge
\* The walk over pV->ledges() of create_edge and of edge(): the first Edge
\* whose halfedge(0) joins v1 and v2, NULL when there is none, FAULT when the
\* walk dereferences a NULL halfedge(0).  A freed Edge still listed is read
\* after delete: with ub = "crash" the read faults, otherwise the memory does
\* not read as an edge between v1 and v2 and the walk goes on.
FAULT == -1

RECURSIVE FindEdge(_, _, _, _, _)
FindEdge(M, ledges, v1, v2, ub) ==
    IF ledges = <<>> THEN NULL
    ELSE LET pE == Head(ledges)
             pH == M.edge[pE].m_halfedge[0]
         IN  IF pE \in M.freed.edge
             THEN IF ub = "crash" THEN FAULT ELSE FindEdge(M, Tail(ledges), v1, v2, ub)
             ELSE IF pH = NULL THEN FAULT
             ELSE IF source(M, pH) = v1 /\ target(M, pH) = v2 THEN pE
             ELSE IF source(M, pH) = v2 /\ target(M, pH) = v1 THEN pE
             ELSE FindEdge(M, Tail(ledges), v1, v2, ub)

\* The vertex whose candidate list holds the edges between v1 and v2.
SmallerId(M, v1, v2) == IF M.vert[v1].m_id < M.vert[v2].m_id THEN v1 ELSE v2

\* CBaseMesh::edge(v0, v1)
edgeOf(M, v0, v1, ub) == FindEdge(M, M.vert[SmallerId(M, v0, v1)].m_ledges, v0, v1, ub)

\* Result: the mesh after the call and the Edge returned (e = FAULT: crashed).
create_edge(M, v1, v2, ub) ==
    LET pV == SmallerId(M, v1, v2)
        e == Len(M.edge) + 1
    IN  Let(FindEdge(M, M.vert[pV].m_ledges, v1, v2, ub), LAMBDA found :
            IF found = FAULT THEN [M |-> Crash(M), e |-> FAULT]
            ELSE IF found # NULL THEN [M |-> M, e |-> found]
            ELSE [M |-> [M EXCEPT !.edge = Append(M.edge, NewEdge),
                                  !.m_edges = Append(M.m_edges, e),
                                  !.vert[pV].m_ledges = Append(M.vert[pV].m_ledges, e)],
                  e |-> e])

\* -------------------------------------------------------------- create_face
\* "connecting with edge", iteration i of the loop (hes[i] is he)
ConnectEdge(M, vs, hes, i, id, ub, nd) ==
    LET he == hes[i + 1]
    IN  Let(create_edge(M, vs[i + 1], vs[((i + 2) % 3) + 1], ub), LAMBDA r :
            IF r.e = FAULT THEN r.M
            ELSE IF r.M.edge[r.e].m_halfedge[0] = NULL
            THEN [r.M EXCEPT !.edge[r.e].m_halfedge[0] = he, !.hedge[he].m_edge = r.e]
            ELSE IF r.M.edge[r.e].m_halfedge[1] # NULL /\ ~nd
            THEN Crash(M)                    \* assert(e->halfedge(1) == NULL)
            ELSE [r.M EXCEPT !.edge[r.e].m_halfedge[1] = he, !.hedge[he].m_edge = r.e])

\* create_face for a triangle vs = <<v0, v1, v2>> of vertex references.
create_face(M0, vs, id, ub, nd) ==
    IF \E i \in 1..3 : vs[i] = NULL THEN Crash(M0)         \* v->uv() on NULL
    ELSE
    LET f == Len(M0.face) + 1
        h0 == Len(M0.hedge) + 1
        hes == <<h0, h0 + 1, h0 + 2>>
        newHe(i) == [NewHalfEdge EXCEPT !.m_vertex = vs[i + 1],
                                        !.m_next = hes[((i + 1) % 3) + 1],
                                        !.m_prev = hes[((i + 2) % 3) + 1],
                                        !.m_face = f]
        \* v->halfedge() = he; v->in_halfedges().push_back(he), in loop order
        seat(V, i) == [V EXCEPT ![vs[i + 1]].m_halfedge = hes[i + 1],
                                ![vs[i + 1]].m_halfedges = Append(@, hes[i + 1])]
        M1 == [M0 EXCEPT !.face = Append(M0.face, [NewFace(id) EXCEPT !.m_halfedge = hes[3]]),
                         !.m_faces = Append(M0.m_faces, f),
                         !.m_map_face = MapInsert(M0.m_map_face, id, f),
                         !.hedge = M0.hedge \o <<newHe(0), newHe(1), newHe(2)>>,
                         !.m_halfedges = M0.m_halfedges \o hes,
                         !.vert = seat(seat(seat(M0.vert, 0), 1), 2)]
        M2 == Then(M1, LAMBDA x : ConnectEdge(x, vs, hes, 0, id, ub, nd))
        M3 == Then(M2, LAMBDA x : ConnectEdge(x, vs, hes, 1, id, ub, nd))
        M4 == Then(M3, LAMBDA x : ConnectEdge(x, vs, hes, 2, id, ub, nd))
    IN  Outcome(M0, M4)

\* -------------------------------------------------------------- delete_face
\* the first loop without its re-seating
ReseatTarget_Keep(M, pH, nd) == M

\* first loop, iteration on pH: re-seat the target's representative
ReseatTarget(M, pH, nd) ==
    LET pV == target(M, pH)
        nx == dual(M, next(M, pH))
    IN  IF M.vert[pV].m_halfedge # pH THEN M
        ELSE IF nx # NULL THEN [M EXCEPT !.vert[pV].m_halfedge = nx]
        ELSE IF dual(M, pH) = NULL /\ ~nd
        THEN Crash(M)                        \* assert(pH->dual() != NULL)
        ELSE [M EXCEPT !.vert[pV].m_halfedge = nx]

\* second loop, iteration on pH: clear the slot, drop the edge if empty
DetachEdge(M, pH) ==
    LET pS == dual(M, pH)
        pE == M.hedge[pH].m_edge
        M1 == [M EXCEPT !.edge[pE].m_halfedge = [i \in {0, 1} |-> IF i = 0 THEN pS ELSE NULL]]
    IN  IF pS # NULL THEN M1
        ELSE [M1 EXCEPT !.m_edges = RemoveAll(M.m_edges, pE),
                        !.freed.edge = @ \cup {pE}]

delete_face(M0, pFace, nd) ==
    LET h0 == M0.face[pFace].m_halfedge
        h1 == next(M0, h0)
        h2 == next(M0, h1)
        id == M0.face[pFace].m_id
        M1 == [M0 EXCEPT !.m_map_face = [k \in DOMAIN M0.m_map_face \ {id} |-> M0.m_map_face[k]],
                         !.m_faces = RemoveAll(M0.m_faces, pFace)]
        R1 == Then(M1, LAMBDA x : ReseatTarget(x, h0, nd))
        R2 == Then(R1, LAMBDA x : ReseatTarget(x, h1, nd))
        R3 == Then(R2, LAMBDA x : ReseatTarget(x, h2, nd))
        D1 == Then(R3, LAMBDA x : DetachEdge(x, h0))
        D2 == Then(D1, LAMBDA x : DetachEdge(x, h1))
        D3 == Then(D2, LAMBDA x : DetachEdge(x, h2))
    IN  Outcome(M0, Then(D3, LAMBDA x : [x EXCEPT !.freed.hedge = @ \cup {h0, h1, h2},
                                                  !.freed.face = @ \cup {pFace}]))

\* ----------------------------------------------------------- label_boundary
\* first loop, iteration on edge e
LabelEdge(M, e, nd) ==
    LET he0 == M.edge[e].m_halfedge[0]
        he1 == M.edge[e].m_halfedge[1]
        t == target(M, he0)
        s == source(M, he0)
    IN  IF he0 = NULL THEN Crash(M)           \* assert(he[0] != NULL), he[0]->...
        ELSE IF he1 # NULL
        THEN IF ~nd /\ ~(t = source(M, he1) /\ s = target(M, he1)) THEN Crash(M)
             ELSE IF M.vert[t].m_id < M.vert[s].m_id
             THEN [M EXCEPT !.edge[e].m_halfedge = [i \in {0, 1} |-> IF i = 0 THEN he1 ELSE he0]]
             ELSE IF ~nd /\ ~(M.vert[s].m_id < M.vert[t].m_id)
             THEN Crash(M)                    \* assert(vertex1()->id() < vertex2()->id())
             ELSE M
        ELSE [M EXCEPT !.vert[t].m_boundary = TRUE, !.vert[s].m_boundary = TRUE]

RECURSIVE LabelEdges(_, _, _)
LabelEdges(M, es, nd) ==
    IF es = <<>> THEN M
    ELSE Then(M, LAMBDA x : LabelEdges(LabelEdge(x, Head(es), nd), Tail(es), nd))

label_boundary(M0, nd) ==
    Outcome(M0, Then(LabelEdges(M0, M0.m_edges, nd), LAMBDA x :
        LET dangling_verts == {v \in Range(x.m_verts) : x.vert[v].m_halfedge = NULL}
        IN  [x EXCEPT !.m_verts = SelectSeq(x.m_verts, LAMBDA v : v \notin dangling_verts),
                      !.freed.vert = @ \cup dangling_verts]))

\* ------------------------------------------------- CHalfEdge fan rotations
\* kind names the member function; h = NULL is dereferenced by all of them.
Rot(M, kind, h) ==
    CASE kind = "ccw_rotate_about_target" ->
            IF dual(M, h) # NULL THEN prev(M, dual(M, h)) ELSE NULL
      [] kind = "clw_rotate_about_target" -> dual(M, next(M, h))
      [] kind = "ccw_rotate_about_source" -> dual(M, prev(M, h))
      [] kind = "clw_rotate_about_source" ->
            IF dual(M, h) # NULL THEN next(M, dual(M, h)) ELSE NULL

Hang(M0) == [M0 EXCEPT !.status = "hung"]

\* while (he != NULL) { m_halfedge = he; he = m_halfedge->rotate(); }
\* A walk longer than the number of half-edges has revisited one: it never ends.
SeekIn_Stay(M, v, kind, fuel) == M

RECURSIVE SeekIn(_, _, _, _)
SeekIn(M, v, kind, fuel) ==
    Let(Rot(M, kind, M.vert[v].m_halfedge), LAMBDA he :
        IF he = NULL THEN M
        ELSE IF fuel = 0 THEN Hang(M)
        ELSE Let([M EXCEPT !.vert[v].m_halfedge = he], LAMBDA x : SeekIn(x, v, kind, fuel - 1)))

\* while (ne != NULL) { he = ne; ne = he->rotate(); } return he;   (HANG: never)
HANG == -2

RECURSIVE SeekOut(_, _, _, _)
SeekOut(M, kind, he, fuel) ==
    Let(Rot(M, kind, he), LAMBDA ne :
        IF ne = NULL THEN he
        ELSE IF fuel = 0 THEN HANG
        ELSE SeekOut(M, kind, ne, fuel - 1))

Fuel(M) == Len(M.hedge) + 1

\* Each query returns the mesh after the call (the representative may have
\* moved, status tells a fault) and the half-edge returned.
most_ccw_in_halfedge(M, v) ==
    IF ~M.vert[v].m_boundary THEN [M |-> M, he |-> M.vert[v].m_halfedge]
    ELSE IF M.vert[v].m_halfedge = NULL THEN [M |-> Crash(M), he |-> NULL]
    ELSE Let(SeekIn(M, v, "ccw_rotate_about_target", Fuel(M)), LAMBDA M1 :
             [M |-> M1, he |-> M1.vert[v].m_halfedge])

most_clw_in_halfedge(M, v) ==
    IF M.vert[v].m_halfedge = NULL THEN [M |-> Crash(M), he |-> NULL]
    ELSE IF ~M.vert[v].m_boundary
    THEN [M |-> M, he |-> Rot(M, "ccw_rotate_about_target", M.vert[v].m_halfedge)]
    ELSE Let(SeekIn(M, v, "clw_rotate_about_target", Fuel(M)), LAMBDA M1 :
             [M |-> M1, he |-> M1.vert[v].m_halfedge])

OutResult(M, he) ==
    IF he = HANG THEN [M |-> Hang(M), he |-> NULL] ELSE [M |-> M, he |-> he]

most_ccw_out_halfedge(M, v) ==
    IF M.vert[v].m_halfedge = NULL THEN [M |-> Crash(M), he |-> NULL]
    ELSE IF ~M.vert[v].m_boundary THEN [M |-> M, he |-> dual(M, M.vert[v].m_halfedge)]
    ELSE Let(SeekOut(M, "ccw_rotate_about_source", next(M, M.vert[v].m_halfedge), Fuel(M)),
             LAMBDA he : OutResult(M, he))

most_clw_out_halfedge(M, v) ==
    IF M.vert[v].m_halfedge = NULL THEN [M |-> Crash(M), he |-> NULL]
    ELSE IF ~M.vert[v].m_boundary
    THEN Let(most_ccw_out_halfedge(M, v), LAMBDA r :
             IF r.he = NULL THEN [M |-> Crash(M), he |-> NULL]
             ELSE [M |-> M, he |-> Rot(M, "ccw_rotate_about_source", r.he)])
    ELSE Let(SeekOut(M, "clw_rotate_about_source", next(M, M.vert[v].m_halfedge), Fuel(M)),
             LAMBDA he : OutResult(M, he))

\* ------------------------------------------------------ CVertex::halfedges
\* while (he) { he = he->ccw_rotate_about_source(); if (!he || he == he0) break;
\*              m_halfedges.push_back(he); }          (<<HANG>>: never ends)
RECURSIVE CollectOut(_, _, _, _, _)
CollectOut(M, he0, he, acc, fuel) ==
    IF he = NULL THEN acc
    ELSE Let(Rot(M, "ccw_rotate_about_source", he), LAMBDA n :
             IF n = NULL \/ n = he0 THEN acc
             ELSE IF fuel = 0 THEN <<HANG>>
             ELSE Let(Append(acc, n), LAMBDA acc1 : CollectOut(M, he0, n, acc1, fuel - 1)))

\* halfedges(direction = 1): the cache when it is not empty (create_face has
\* pushed the incoming half-edges into it), else the outgoing fan.
halfedges(M, v) ==
    IF M.vert[v].m_halfedges # <<>> THEN M
    ELSE Let(most_clw_out_halfedge(M, v), LAMBDA r :
             IF r.M.status # "ok" THEN r.M
             ELSE Let(CollectOut(M, r.he, r.he, <<r.he>>, Fuel(M)), LAMBDA hs :
                      IF hs = <<HANG>> THEN Hang(M)
                      ELSE [r.M EXCEPT !.vert[v].m_halfedges = hs]))

\* ---------------------------------------------------------- CVertex::edges
\* for (he : m_halfedges) m_edges.push_back(he->edge());  a NULL entry is
\* dereferenced; a freed entry is read after delete (ub = "crash": faults,
\* otherwise the old field is read).
RECURSIVE EdgesOf(_, _, _)
EdgesOf(M, hs, ub) ==
    IF hs = <<>> THEN <<>>
    ELSE IF Head(hs) = NULL \/ (Head(hs) \in M.freed.hedge /\ ub = "crash") THEN <<FAULT>>
    ELSE Let(EdgesOf(M, Tail(hs), ub), LAMBDA rest :
             IF rest = <<FAULT>> THEN rest
             ELSE <<M.hedge[Head(hs)].m_edge>> \o rest)

\* edges(): fills m_edges on first use.  A vector whose storage was written
\* through the list cast of swapEdge is read as it is (ub = "crash": faults).
edges(M, v, ub) ==
    IF ~M.vert[v].edgesIntact THEN (IF ub = "crash" THEN Crash(M) ELSE M)
    ELSE IF M.vert[v].m_edges # <<>> THEN M
    ELSE Then(halfedges(M, v), LAMBDA M1 :
             Let(EdgesOf(M1, M1.vert[v].m_halfedges, ub), LAMBDA es :
                 IF es = <<FAULT>> THEN Crash(M)
                 ELSE IF ~M1.vert[v].m_boundary THEN [M1 EXCEPT !.vert[v].m_edges = es]
                 ELSE Let(most_ccw_in_halfedge(M1, v), LAMBDA r :
                          IF r.M.status # "ok" THEN r.M
                          ELSE [r.M EXCEPT !.vert[v].m_edges =
                                               Append(es, r.M.hedge[r.he].m_edge)])))

\* ------------------------------------------------------- CVertex::vertices
\* for (he : m_halfedges) m_vertices.push_back(he->target());  a NULL entry is
\* dereferenced; a freed entry is read after delete.
RECURSIVE TargetsOf(_, _, _)
TargetsOf(M, hs, ub) ==
    IF hs = <<>> THEN <<>>
    ELSE IF Head(hs) = NULL \/ (Head(hs) \in M.freed.hedge /\ ub = "crash") THEN <<FAULT>>
    ELSE Let(TargetsOf(M, Tail(hs), ub), LAMBDA rest :
             IF rest = <<FAULT>> THEN rest
             ELSE <<M.hedge[Head(hs)].m_vertex>> \o rest)

\* vertices(): fills m_vertices on first use, from halfedges() and, for a
\* boundary vertex, the source of most_ccw_in_halfedge().
vertices(M, v, ub) ==
    IF M.vert[v].m_vertices # <<>> THEN M
    ELSE Then(halfedges(M, v), LAMBDA M1 :
             Let(TargetsOf(M1, M1.vert[v].m_halfedges, ub), LAMBDA vs :
                 IF vs = <<FAULT>> THEN Crash(M)
                 ELSE IF ~M1.vert[v].m_boundary THEN [M1 EXCEPT !.vert[v].m_vertices = vs]
                 ELSE Let(most_ccw_in_halfedge(M1, v), LAMBDA r :
                          IF r.M.status # "ok" THEN r.M
                          ELSE [r.M EXCEPT !.vert[v].m_vertices =
                                               Append(vs, source(r.M, r.he))])))

\* ------------------------------------------- CFace::halfedges / vertices / edges
\* he = m_halfedge->next(); while (he != m_halfedge) { push he; he = he->next(); }
RECURSIVE FaceWalk(_, _, _, _, _)
FaceWalk(M, h0, he, acc, fuel) ==
    IF he = h0 THEN acc
    ELSE IF he = NULL THEN <<FAULT>>
    ELSE IF fuel = 0 THEN <<HANG>>
    ELSE Let(Append(acc, he), LAMBDA acc1 : FaceWalk(M, h0, next(M, he), acc1, fuel - 1))

\* halfedges(): fills m_halfedges on first use
face_halfedges(M, f) ==
    IF M.face[f].m_halfedges # <<>> THEN M
    ELSE Let(M.face[f].m_halfedge, LAMBDA h0 :
             Let(FaceWalk(M, h0, next(M, h0), <<h0>>, Fuel(M)), LAMBDA hs :
                 IF hs = <<FAULT>> THEN Crash(M)
                 ELSE IF hs = <<HANG>> THEN Hang(M)
                 ELSE [M EXCEPT !.face[f].m_halfedges = hs]))

\* vertices(): fills m_vertices on first use, from halfedges()
face_vertices(M, f) ==
    IF M.face[f].m_vertices # <<>> THEN M
    ELSE Then(face_halfedges(M, f), LAMBDA M1 :
             [M1 EXCEPT !.face[f].m_vertices =
                  [i \in 1..Len(M1.face[f].m_halfedges) |->
                      M1.hedge[M1.face[f].m_halfedges[i]].m_vertex]])

\* edges(): fills m_edges on first use, from halfedges()
face_edges(M, f) ==
    IF M.face[f].m_edges # <<>> THEN M
    ELSE Then(face_halfedges(M, f), LAMBDA M1 :
             [M1 EXCEPT !.face[f].m_edges =
                  [i \in 1..Len(M1.face[f].m_halfedges) |->
                      M1.hedge[M1.face[f].m_halfedges[i]].m_edge]])

\* ------------------------------------------------------------ field writes
SetTarget(M, h, v) == [M EXCEPT !.hedge[h].m_vertex = v]
SetRep(M, v, h) == [M EXCEPT !.vert[v].m_halfedge = h]
SetSlot(M, e, i, h) == [M EXCEPT !.edge[e].m_halfedge[i] = h]
SetEdge(M, h, e) == [M EXCEPT !.hedge[h].m_edge = e]

\* h[i]->vertex() = tg[i] for i = lo..hi, in this order
RECURSIVE SetTargets(_, _, _, _, _)
SetTargets(M, h, tg, lo, hi) ==
    IF lo > hi THEN M ELSE SetTargets(SetTarget(M, h[lo], tg[lo]), h, tg, lo + 1, hi)

\* h[i]->vertex()->halfedge() = h[i] for i = lo..hi, in this order
RECURSIVE SeatTargets(_, _, _, _)
SeatTargets(M, h, lo, hi) ==
    IF lo > hi THEN M
    ELSE Then(M, LAMBDA x : SeatTargets(SetRep(x, target(x, h[lo]), h[lo]), h, lo + 1, hi))

\* ------------------------------------------------ __attach_halfedge_to_edge
attach_halfedge_to_edge(M, he0, he1, e) ==
    IF he0 = NULL \/ he1 = NULL THEN Crash(M)               \* he->edge() on NULL
    ELSE SetEdge(SetEdge(SetSlot(SetSlot(M, e, 0, he0), e, 1, he1), he0, e), he1, e)

\* new CFace with the next face id, pushed on m_faces, and its cycle of three
\* new half-edges (linked to each other and to the face; f->halfedge() is the
\* last one).  The half-edges are not pushed on m_halfedges.
NewTriangle_PrevIsNext(M) ==
    LET f == Len(M.face) + 1
        b == Len(M.hedge)
        he(i) == [NewHalfEdge EXCEPT !.m_next = b + ((i + 1) % 3) + 1,
                                     !.m_prev = b + ((i + 1) % 3) + 1,
                                     !.m_face = f]
    IN  [M EXCEPT !.m_face_id = M.m_face_id + 1,
                  !.face = Append(M.face, [NewFace(M.m_face_id + 1) EXCEPT !.m_halfedge = b + 3]),
                  !.m_faces = Append(M.m_faces, f),
                  !.hedge = M.hedge \o <<he(0), he(1), he(2)>>]

NewTriangle(M) ==
    LET f == Len(M.face) + 1
        b == Len(M.hedge)
        he(i) == [NewHalfEdge EXCEPT !.m_next = b + ((i + 1) % 3) + 1,
                                     !.m_prev = b + ((i + 2) % 3) + 1,
                                     !.m_face = f]
    IN  [M EXCEPT !.m_face_id = M.m_face_id + 1,
                  !.face = Append(M.face, [NewFace(M.m_face_id + 1) EXCEPT !.m_halfedge = b + 3]),
                  !.m_faces = Append(M.m_faces, f),
                  !.hedge = M.hedge \o <<he(0), he(1), he(2)>>]

\* e[i] = new CEdge(); m_edges.push_back(e[i]);  three times
NewEdges3_OneUnlisted(M) ==
    LET b == Len(M.edge)
    IN  [M EXCEPT !.edge = M.edge \o <<NewEdge, NewEdge, NewEdge>>,
                  !.m_edges = M.m_edges \o <<b + 1, b + 2>>]

NewEdges3(M) ==
    LET b == Len(M.edge)
    IN  [M EXCEPT !.edge = M.edge \o <<NewEdge, NewEdge, NewEdge>>,
                  !.m_edges = M.m_edges \o <<b + 1, b + 2, b + 3>>]

\* pV = create_vertex(++m_vertex_id)
NewSplitVertex(M) ==
    create_vertex([M EXCEPT !.m_vertex_id = M.m_vertex_id + 1], M.m_vertex_id + 1)

\* ---------------------------------------------------------------- splitFace
\* The target assignments of splitFace: h the half-edges of the face, hes and
\* hes2 those of the two new faces, v the corners, pV the new vertex.
SplitFaceTargets_ApexOnRim(M, h, hes, hes2, v, pV) ==
    LET T1 == SetTarget(SetTarget(SetRep(M, pV, h[1]), h[1], pV), h[2], v[2])
        T2 == SetTarget(SetTarget(SetTarget(T1, hes[0], v[0]), hes[1], pV), hes[2], v[1])
    IN  SetTarget(SetTarget(SetTarget(T2, hes2[0], pV), hes2[1], v[1]), hes2[2], v[2])

SplitFaceTargets(M, h, hes, hes2, v, pV) ==
    LET T1 == SetTarget(SetTarget(SetRep(M, pV, h[1]), h[1], pV), h[2], v[2])
        T2 == SetTarget(SetTarget(SetTarget(T1, hes[0], v[0]), hes[1], v[1]), hes[2], pV)
    IN  SetTarget(SetTarget(SetTarget(T2, hes2[0], pV), hes2[1], v[1]), hes2[2], v[2])

splitFace(M0, pFace) ==
    LET pV == Len(M0.vert) + 1
        h == [i \in 0..2 |-> IF i = 0 THEN M0.face[pFace].m_halfedge
                             ELSE IF i = 1 THEN next(M0, M0.face[pFace].m_halfedge)
                             ELSE next(M0, next(M0, M0.face[pFace].m_halfedge))]
        v == [i \in 0..2 |-> target(M0, h[i])]
        eg == [i \in 0..2 |-> M0.hedge[h[i]].m_edge]
        hs == [i \in 0..2 |-> dual(M0, h[i])]
        hes == [i \in 0..2 |-> Len(M0.hedge) + 1 + i]
        hes2 == [i \in 0..2 |-> Len(M0.hedge) + 4 + i]
        e == [i \in 0..2 |-> Len(M0.edge) + 1 + i]
        Ma == NewSplitVertex(M0)
        Mb == Then(Ma, NewTriangle)
        Mc == Then(Mb, NewTriangle)
        Md == Then(Mc, NewEdges3)
        A1 == Then(Md, LAMBDA x : attach_halfedge_to_edge(x, h[1], hes[0], e[0]))
        A2 == Then(A1, LAMBDA x : attach_halfedge_to_edge(x, hes[2], hes2[1], e[1]))
        A3 == Then(A2, LAMBDA x : attach_halfedge_to_edge(x, h[2], hes2[0], e[2]))
        A4 == Then(A3, LAMBDA x : attach_halfedge_to_edge(x, h[0], hs[0], eg[0]))
        A5 == Then(A4, LAMBDA x : attach_halfedge_to_edge(x, hes[1], hs[1], eg[1]))
        A6 == Then(A5, LAMBDA x : attach_halfedge_to_edge(x, hes2[2], hs[2], eg[2]))
        T == Then(A6, LAMBDA x : SplitFaceTargets(x, h, hes, hes2, v, pV))
        R0 == Then(T, LAMBDA x : SetRep(x, v[0], dual(x, hs[0])))
        R1 == Then(R0, LAMBDA x : SetRep(x, v[1], dual(x, hs[1])))
        R2 == Then(R1, LAMBDA x : SetRep(x, v[2], dual(x, hs[2])))
    IN  Outcome(M0, R2)

\* ---------------------------------------------------------------- splitEdge
\* assert(pH->vertex() == pH->dual()->prev()->vertex()) for the three
\* half-edges of face f
FaceDualsAgree(M, f) ==
    LET a == M.face[f].m_halfedge
        b == next(M, a)
        c == next(M, b)
    IN  \A pH \in {a, b, c} : target(M, pH) = target(M, prev(M, dual(M, pH)))

splitEdge(M0, pEdge, nd) ==
    IF M0.edge[pEdge].m_halfedge[0] = NULL \/ M0.edge[pEdge].m_halfedge[1] = NULL
    THEN Crash(M0)                                     \* h[0]->next(), h[3]->next()
    ELSE
    LET pV == Len(M0.vert) + 1
        a0 == M0.edge[pEdge].m_halfedge[0]
        a3 == M0.edge[pEdge].m_halfedge[1]
        h == [i \in 0..11 |->
                CASE i = 0 -> a0
                  [] i = 1 -> next(M0, a0)
                  [] i = 2 -> next(M0, next(M0, a0))
                  [] i = 3 -> a3
                  [] i = 4 -> next(M0, a3)
                  [] i = 5 -> next(M0, next(M0, a3))
                  [] i \in 6..11 -> Len(M0.hedge) + 1 + (i - 6)]
        f == [k \in 0..3 |->
                CASE k = 0 -> M0.hedge[h[0]].m_face
                  [] k = 1 -> M0.hedge[h[3]].m_face
                  [] k = 2 -> Len(M0.face) + 1
                  [] k = 3 -> Len(M0.face) + 2]
        eg == [i \in 0..5 |-> M0.hedge[h[i]].m_edge]
        v == [i \in 0..5 |-> target(M0, h[i])]
        s == [i \in 0..5 |-> dual(M0, h[i])]
        e == [i \in 0..2 |-> Len(M0.edge) + 1 + i]
        tg == [i \in 0..11 |->
                CASE i = 0 -> v[0]   [] i = 1 -> v[1]   [] i = 2 -> pV
                  [] i = 3 -> pV     [] i = 4 -> v[4]   [] i = 5 -> v[5]
                  [] i = 6 -> v[1]   [] i = 7 -> v[2]   [] i = 8 -> pV
                  [] i = 9 -> v[2]   [] i = 10 -> v[4]  [] i = 11 -> pV]
        Ma == NewSplitVertex(M0)
        Mb == Then(Ma, NewTriangle)
        Mc == Then(Mb, NewTriangle)
        Md == Then(Mc, NewEdges3)
        A1 == Then(Md, LAMBDA x : attach_halfedge_to_edge(x, h[2], h[6], e[0]))
        A2 == Then(A1, LAMBDA x : attach_halfedge_to_edge(x, h[8], h[9], e[1]))
        A3 == Then(A2, LAMBDA x : attach_halfedge_to_edge(x, h[4], h[11], e[2]))
        A4 == Then(A3, LAMBDA x : attach_halfedge_to_edge(x, h[0], h[3], eg[0]))
        A5 == Then(A4, LAMBDA x : attach_halfedge_to_edge(x, h[1], s[1], eg[1]))
        A6 == Then(A5, LAMBDA x : attach_halfedge_to_edge(x, h[5], s[5], eg[5]))
        A7 == Then(A6, LAMBDA x : attach_halfedge_to_edge(x, h[7], s[2], eg[2]))
        A8 == Then(A7, LAMBDA x : attach_halfedge_to_edge(x, h[10], s[4], eg[4]))
        T == Then(A8, LAMBDA x : SetTargets(x, h, tg, 0, 11))
        R == Then(T, LAMBDA x : SetRep(SetRep(SetRep(SetRep(SetRep(x, v[0], h[0]), v[1], h[1]),
                                                      v[2], h[7]), v[4], h[4]), pV, h[3]))
    IN  Outcome(M0, Then(R, LAMBDA x :
            IF ~nd /\ \E k \in 0..3 : ~FaceDualsAgree(x, f[k]) THEN Crash(x) ELSE x))

\* ----------------------------------------------------------------- swapEdge
\* The six half-edges and four vertices swapEdge and swapable work on.
SwapFrame(M, e) ==
    LET l == M.edge[e].m_halfedge[0]
        r == M.edge[e].m_halfedge[1]
        ph == [i \in 0..5 |->
                CASE i = 0 -> l  [] i = 1 -> next(M, l)  [] i = 2 -> next(M, next(M, l))
                  [] i = 3 -> r  [] i = 4 -> next(M, r)  [] i = 5 -> next(M, next(M, r))]
    IN  [ph |-> ph,
         pv |-> [i \in 0..3 |-> IF i < 3 THEN target(M, ph[i]) ELSE target(M, ph[4])],
         pe |-> [i \in 0..5 |-> M.hedge[ph[i]].m_edge],
         pi |-> [i \in 0..5 |-> IF M.edge[M.hedge[ph[i]].m_edge].m_halfedge[0] = ph[i]
                                THEN 0 ELSE 1]]

\* assert(he->target() == sh->prev()->target());
\* assert(he->prev()->target() == sh->target());      with sh = he->dual()
SwapDualOk(M, he) ==
    LET sh == dual(M, he)
    IN  /\ target(M, he) = target(M, prev(M, sh))
        /\ target(M, prev(M, he)) = target(M, sh)

\* ub is the outcome of treating the vector returned by CVertex::edges() as a
\* std::list: "crash" when walking it faults, "proceed" when the walk ends
\* and the list erase / push_back only damage the two vectors.
SwapInterior(M0, F, ub, nd) ==
    LET ph == F.ph
        pv == F.pv
        pe == F.pe
        pi == F.pi
        vb == IF M0.vert[pv[0]].m_id < M0.vert[pv[2]].m_id THEN pv[0] ELSE pv[2]
        wb == IF M0.vert[pv[1]].m_id < M0.vert[pv[3]].m_id THEN pv[1] ELSE pv[3]
        tg == [i \in 0..5 |->
                CASE i = 0 -> pv[1]  [] i = 1 -> pv[2]  [] i = 2 -> pv[3]
                  [] i = 3 -> pv[3]  [] i = 4 -> pv[0]  [] i = 5 -> pv[1]]
        Ma == edges(M0, vb, ub)
        Mb == Then(Ma, LAMBDA x : edges(x, wb, ub))
        Mu == Then(Mb, LAMBDA x : IF ub = "crash" THEN Crash(x) ELSE x)
        Mt == Then(Mu, LAMBDA x : SetTargets(x, ph, tg, 0, 5))
        Mc == SeatTargets(Mt, ph, 0, 5)
        L1 == Then(Mc, LAMBDA x : SetSlot(SetEdge(x, ph[1], pe[2]), pe[2], pi[2], ph[1]))
        L2 == Then(L1, LAMBDA x : SetSlot(SetEdge(x, ph[2], pe[4]), pe[4], pi[4], ph[2]))
        L3 == Then(L2, LAMBDA x : SetSlot(SetEdge(x, ph[4], pe[5]), pe[5], pi[5], ph[4]))
        L4 == Then(L3, LAMBDA x : SetSlot(SetEdge(x, ph[5], pe[1]), pe[1], pi[1], ph[5]))
        Md == Then(L4, LAMBDA x : [x EXCEPT !.vert[vb].edgesIntact = FALSE,
                                            !.vert[wb].edgesIntact = FALSE])
    IN  IF ~nd /\ \E i \in 0..5 : M0.edge[pe[i]].m_halfedge[pi[i]] # ph[i]
        THEN Crash(M0)                        \* assert(pe[i]->halfedge(1) == he)
        ELSE Outcome(M0, Then(Md, LAMBDA x :
                IF ~nd /\ \E i \in 0..5 : (dual(x, ph[i]) = NULL \/ ~SwapDualOk(x, ph[i]))
                THEN Crash(x) ELSE x))

swapEdge_NoEarlyReturn(M0, e, ub, nd) ==
    IF M0.edge[e].m_halfedge[1] = NULL THEN Crash(M0)      \* ph[3]->next() on NULL
    ELSE Let(SwapFrame(M0, e), LAMBDA F : SwapInterior(M0, F, ub, nd))

\* if (he_right == NULL) return;  then the relinking
swapEdge(M0, e, ub, nd) ==
    IF M0.edge[e].m_halfedge[1] = NULL THEN M0
    ELSE Let(SwapFrame(M0, e), LAMBDA F : SwapInterior(M0, F, ub, nd))

\* ----------------------------------------------------------------- swapable
\* for (pE : wedges) { v1 = pE->vertex1(); v2 = pE->vertex2();
\*                     if (v1, v2 are pv[0], pv[2] in either order) return false; }
\* "found": returned false, "none": the walk ended, "fault": NULL halfedge(0).
RECURSIVE WalkWedges(_, _, _, _)
WalkWedges(M, wedges, p0, p2) ==
    IF wedges = <<>> THEN "none"
    ELSE Let(M.edge[Head(wedges)].m_halfedge[0], LAMBDA h :
             IF h = NULL THEN "fault"
             ELSE IF (source(M, h) = p0 /\ target(M, h) = p2)
                     \/ (source(M, h) = p2 /\ target(M, h) = p0) THEN "found"
             ELSE WalkWedges(M, Tail(wedges), p0, p2))

\* Result: the mesh after the call (edges() fills the caches of vb and wb) and
\* the value returned.  ub as in swapEdge; when the walk over the cast vector
\* ends it has visited the entries of wb->edges().
swapable(M0, e, ub, nd) ==
    IF M0.edge[e].m_halfedge[1] = NULL THEN [M |-> M0, ret |-> FALSE]
    ELSE Let(SwapFrame(M0, e), LAMBDA F :
        IF ~nd /\ \E i \in 0..5 : M0.edge[F.pe[i]].m_halfedge[F.pi[i]] # F.ph[i]
        THEN [M |-> Crash(M0), ret |-> FALSE]     \* assert(pe[i]->halfedge(1) == he)
        ELSE
        LET vb == IF M0.vert[F.pv[0]].m_id < M0.vert[F.pv[2]].m_id THEN F.pv[0] ELSE F.pv[2]
            wb == IF M0.vert[F.pv[1]].m_id < M0.vert[F.pv[3]].m_id THEN F.pv[1] ELSE F.pv[3]
            Ma == edges(M0, vb, ub)
            Mb == Then(Ma, LAMBDA x : edges(x, wb, ub))
            Mu == Then(Mb, LAMBDA x : IF ub = "crash" THEN Crash(x) ELSE x)
        IN  Let(Outcome(M0, Mu), LAMBDA x :
                IF x.status # "ok" THEN [M |-> x, ret |-> FALSE]
                ELSE Let(WalkWedges(x, x.vert[wb].m_edges, F.pv[0], F.pv[2]), LAMBDA w :
                         IF w = "fault" THEN [M |-> Crash(M0), ret |-> FALSE]
                         ELSE [M |-> x, ret |-> (w = "none")])))

\* -------------------------------------------------------------------- CLoop
\* CEdge::length() is a field the client fills; here every edge has length
\* 1 but the edge `long`, which has length 2.
EdgeLength(e, long) == IF e = long THEN 2 ELSE 1

RECURSIVE SumLengths(_, _, _)
SumLengths(M, hs, long) ==
    IF hs = <<>> THEN 0
    ELSE EdgeLength(M.hedge[Head(hs)].m_edge, long) + SumLengths(M, Tail(hs), long)

\* do { v = he->target(); he = v->most_clw_out_halfedge();
\*      m_halfedges.push_back(he); m_length += he->edge()->length();
\* } while (he != m_pHalfedge);
\* Result: how the trace ended and the half-edges pushed.
RECURSIVE TraceLoop(_, _, _, _, _)
TraceLoop(M, pH, he, hs, fuel) ==
    IF he = NULL THEN [status |-> "crashed", m_halfedges |-> hs]       \* he->target()
    ELSE Let(most_clw_out_halfedge(M, target(M, he)), LAMBDA r :
        IF r.M.status # "ok" THEN [status |-> r.M.status, m_halfedges |-> hs]
        ELSE IF r.he = NULL THEN [status |-> "crashed", m_halfedges |-> hs]  \* he->edge()
        ELSE Let(Append(hs, r.he), LAMBDA hs1 :
                 IF r.he = pH THEN [status |-> "ok", m_halfedges |-> hs1]
                 ELSE IF fuel = 0 THEN [status |-> "hung", m_halfedges |-> hs1]
                 ELSE TraceLoop(M, pH, r.he, hs1, fuel - 1)))

\* new CLoop(pMesh, pH)
CLoop(M, pH, long) ==
    Let(TraceLoop(M, pH, pH, <<>>, Fuel(M)), LAMBDA t :
        [status |-> t.status, m_pHalfedge |-> pH, m_halfedges |-> t.m_halfedges,
         m_length |-> SumLengths(M, t.m_halfedges, long)])

\* ---------------------------------------------------------------- CBoundary
\* loops[j + 1]->length() > loops[j]->length()
OutOfOrder_OrEqual(a, b) == b.m_length >= a.m_length

OutOfOrder(a, b) == b.m_length > a.m_length

\* one pass of the inner loop from position j on (positions count from 1);
\* st is the vector and the flag
RECURSIVE BubblePass(_, _)
BubblePass(st, j) ==
    IF j > Len(st.loops) - 1 THEN st
    ELSE Let(IF OutOfOrder(st.loops[j], st.loops[j + 1])
             THEN [loops |-> [st.loops EXCEPT ![j] = st.loops[j + 1], ![j + 1] = st.loops[j]],
                   flag |-> 1]
             ELSE st,
             LAMBDA s1 : BubblePass(s1, j + 1))

\* for (i = 1; (i <= numLength) && flag; i++) { flag = 0; one pass }
RECURSIVE BubblePasses(_, _)
BubblePasses(loops, i) ==
    IF i > Len(loops) THEN loops
    ELSE Let(BubblePass([loops |-> loops, flag |-> 0], 1), LAMBDA st :
             IF st.flag = 0 THEN st.loops ELSE BubblePasses(st.loops, i + 1))

bubble_sort(loops) == BubblePasses(loops, 1)

\* e->halfedge(0) of every edge with an empty slot, as std::set<CHalfEdge*>
BoundaryHes(M) ==
    {M.edge[e].m_halfedge[0] :
        e \in {x \in Range(M.m_edges) :
                  M.edge[x].m_halfedge[0] = NULL \/ M.edge[x].m_halfedge[1] = NULL}}

\* *boundary_hes.begin(): the set is ordered by address; order tells whether
\* later allocations lie at higher ("up") or lower ("down") addresses.  NULL
\* is the lowest address.
FirstHe(hes, order) ==
    IF NULL \in hes THEN NULL
    ELSE IF order = "up" THEN CHOOSE h \in hes : \A g \in hes : h <= g
    ELSE CHOOSE h \in hes : \A g \in hes : h >= g

\* for (he : pL->halfedges()) erase he from boundary_hes, if it is there
EraseLoop_StartOnly(hes, pL) == hes \ {pL.m_pHalfedge}

EraseLoop(hes, pL) == hes \ Range(pL.m_halfedges)

\* while (!boundary_hes.empty()) { trace a loop from the first candidate,
\*                                 push it, erase its half-edges from the set }
RECURSIVE TraceAll(_, _, _, _, _)
TraceAll(M, hes, loops, long, order) ==
    IF hes = {} THEN [status |-> "ok", loops |-> loops]
    ELSE Let(CLoop(M, FirstHe(hes, order), long), LAMBDA pL :
             IF pL.status # "ok" THEN [status |-> pL.status, loops |-> loops]
             ELSE Let(Append(loops, [m_pHalfedge |-> pL.m_pHalfedge,
                                     m_halfedges |-> pL.m_halfedges,
                                     m_length |-> pL.m_length,
                                     m_segments |-> <<>>]),
                      LAMBDA ls : TraceAll(M, EraseLoop(hes, pL), ls, long, order)))

\* Result: how construction ended, the loops in the order traced, and m_loops.
CBoundary(M, long, order) ==
    Let(TraceAll(M, BoundaryHes(M), <<>>, long, order), LAMBDA t :
        [status |-> t.status, traced |-> t.loops,
         m_loops |-> IF t.status = "ok" THEN bubble_sort(t.loops) ELSE <<>>])

\* ------------------------------------------------------------ CLoop::divide
\* while (true) { pH = queue.front(); if (pH->source() == markers[0]) break;
\*                queue.pop_front(); queue.push_back(pH); n++;
\*                if (n > queue.size()) break; }
\* Result: the queue and n when the loop is left.
RECURSIVE RotateTo(_, _, _, _)
RotateTo(M, queue, m0, n) ==
    IF source(M, Head(queue)) = m0 THEN [queue |-> queue, n |-> n]
    ELSE Let(Append(Tail(queue), Head(queue)), LAMBDA q :
             IF n + 1 > Len(q) THEN [queue |-> q, n |-> n + 1]
             ELSE RotateTo(M, q, m0, n + 1))

\* markers[(i + 1) % markers.size()], positions counting from 1
NextMarker_NoWrap(markers, i) == markers[IF i < Len(markers) THEN i + 1 ELSE i]

NextMarker(markers, i) == markers[(i % Len(markers)) + 1]

\* while (ph->target() != stop) { if (queue.empty()) error;
\*                                ph = queue.front(); queue.pop_front(); hes.push_back(ph); }
RECURSIVE TakeSegment(_, _, _, _)
TakeSegment(M, queue, hes, stop) ==
    IF target(M, hes[Len(hes)]) = stop THEN [ok |-> TRUE, queue |-> queue, hes |-> hes]
    ELSE IF queue = <<>> THEN [ok |-> FALSE, queue |-> queue, hes |-> hes]
    ELSE Let(Append(hes, Head(queue)), LAMBDA hes1 : TakeSegment(M, Tail(queue), hes1, stop))

\* for (i = 0; i < markers.size(); i++) { take a segment; m_segments.push_back(pS); }
\* queue.front() of an empty deque is taken as the end of the process; the
\* assert is compiled only in a debug build.
RECURSIVE DivideFrom(_, _, _, _, _, _)
DivideFrom(M, queue, markers, i, segs, nd) ==
    IF i > Len(markers) THEN [status |-> "ok", reported |-> FALSE, m_segments |-> segs]
    ELSE IF queue = <<>> THEN [status |-> "crashed", reported |-> FALSE, m_segments |-> segs]
    ELSE IF ~nd /\ source(M, Head(queue)) # markers[i]
    THEN [status |-> "crashed", reported |-> FALSE, m_segments |-> segs]
    ELSE Let(TakeSegment(M, Tail(queue), <<Head(queue)>>, NextMarker(markers, i)), LAMBDA t :
             IF ~t.ok THEN [status |-> "ok", reported |-> TRUE, m_segments |-> segs]
             ELSE Let(Append(segs, [m_halfedges |-> t.hes]), LAMBDA segs1 :
                      DivideFrom(M, t.queue, markers, i + 1, segs1, nd)))

\* L.divide(markers).  Result: how the call ended, whether it wrote an error
\* to std::cerr, and m_segments of the loop after it.
divide(M, L, markers, nd) ==
    Let(RotateTo(M, L.m_halfedges, markers[1], 0), LAMBDA r :
        IF r.n > Len(r.queue)
        THEN [status |-> "ok", reported |-> TRUE, m_segments |-> L.m_segments]
        ELSE DivideFrom(M, r.queue, markers, 1, L.m_segments, nd))

\* ================================================================== actions
EmptyMesh ==
    [vert |-> <<>>, hedge |-> <<>>, edge |-> <<>>, face |-> <<>>,
     freed |-> [vert |-> {}, hedge |-> {}, edge |-> {}, face |-> {}],
     m_verts |-> <<>>, m_edges |-> <<>>, m_faces |-> <<>>, m_halfedges |-> <<>>,
     m_map_vert |-> <<>>, m_map_face |-> <<>>,
     m_vertex_id |-> 0, m_face_id |-> 0, status |-> "ok"]

\* The record of a call: ret is what it returned (NULL for a void function).
CallRet(op, arg, ub, ret) == [op |-> op, arg |-> arg, ub |-> ub, pre |-> Cur, ret |-> ret]
Call(op, arg, ub) == CallRet(op, arg, ub, NULL)

\* CDynamicMesh(): an empty mesh, both id counters 0.
Init ==
    /\ vert = EmptyMesh.vert /\ hedge = EmptyMesh.hedge
    /\ edge = EmptyMesh.edge /\ face = EmptyMesh.face
    /\ freed = EmptyMesh.freed
    /\ m_verts = <<>> /\ m_edges = <<>> /\ m_faces = <<>> /\ m_halfedges = <<>>
    /\ m_map_vert = <<>> /\ m_map_face = <<>>
    /\ m_vertex_id = 0 /\ m_face_id = 0
    /\ status = "ok"
    /\ ndebug \in BOOLEAN
    /\ soup \in Soups
    /\ vid = 1 /\ fid = 1
    /\ last = [op |-> "construct", arg |-> NULL, ub |-> "none", pre |-> EmptyMesh, ret |-> NULL]
    /\ nEdit = 0 /\ nDelete = 0 /\ nCall = 0
    /\ m_loops = <<>>

Loaded == vid > soup.nv /\ fid > Len(soup.fs)

\* loader, a vertex record: create_vertex(vid); vid++
LoadVertex ==
    /\ status = "ok" /\ vid <= soup.nv
    /\ \E M0 \in {Cur} : \E M \in {create_vertex(M0, vid)} : Commit(M)
    /\ vid' = vid + 1
    /\ last' = Call("create_vertex", vid, "none")
    /\ UNCHANGED <<ndebug, soup, fid, nEdit, nDelete, nCall, m_loops>>

\* m_map_vert[ids[0..2]]: std::map::operator[] stores NULL under a key it
\* does not hold.
MapLookups(M, ids) ==
    [M EXCEPT !.m_map_vert =
        MapInsert(MapInsert(MapInsert(M.m_map_vert, ids[1], NULL), ids[2], NULL), ids[3], NULL)]

\* loader, a face record: vs[i] = m_map_vert[ids[i]]; create_face(vs, fid++)
LoadFace ==
    /\ status = "ok" /\ vid > soup.nv /\ fid <= Len(soup.fs)
    /\ \E M0 \in {MapLookups(Cur, soup.fs[fid])} :
          \E M \in {create_face(M0, [i \in 1..3 |-> M0.m_map_vert[soup.fs[fid][i]]],
                                fid, "crash", ndebug)} : Commit(M)
    /\ fid' = fid + 1
    /\ last' = Call("create_face", fid, "none")
    /\ UNCHANGED <<ndebug, soup, vid, nEdit, nDelete, nCall, m_loops>>

LabelBoundary ==
    /\ status = "ok" /\ Loaded
    /\ \E M0 \in {Cur} : \E M \in {label_boundary(M0, ndebug)} : Commit(M)
    /\ last' = Call("label_boundary", NULL, "none")
    /\ UNCHANGED <<ndebug, soup, vid, fid, nEdit, nDelete, nCall, m_loops>>

DeleteFace(f) ==
    /\ status = "ok" /\ Loaded /\ nDelete < MaxDelete
    /\ \E M0 \in {Cur} : \E M \in {delete_face(M0, f, ndebug)} : Commit(M)
    /\ nDelete' = nDelete + 1
    /\ last' = Call("delete_face", f, "none")
    /\ UNCHANGED <<ndebug, soup, vid, fid, nEdit, nCall, m_loops>>

SplitFace(f) ==
    /\ status = "ok" /\ Loaded /\ nEdit < MaxEdit
    /\ \E M0 \in {Cur} : \E M \in {splitFace(M0, f)} : Commit(M)
    /\ nEdit' = nEdit + 1
    /\ last' = Call("splitFace", f, "none")
    /\ UNCHANGED <<ndebug, soup, vid, fid, nDelete, nCall, m_loops>>

SplitEdge(e) ==
    /\ status = "ok" /\ Loaded /\ nEdit < MaxEdit
    /\ \E M0 \in {Cur} : \E M \in {splitEdge(M0, e, ndebug)} : Commit(M)
    /\ nEdit' = nEdit + 1
    /\ last' = Call("splitEdge", e, "none")
    /\ UNCHANGED <<ndebug, soup, vid, fid, nDelete, nCall, m_loops>>

SwapEdge(e, ub) ==
    /\ status = "ok" /\ Loaded /\ nEdit < MaxEdit
    /\ \E M0 \in {Cur} : \E M \in {swapEdge(M0, e, ub, ndebug)} : Commit(M)
    /\ nEdit' = nEdit + 1
    /\ last' = Call("swapEdge", e, ub)
    /\ UNCHANGED <<ndebug, soup, vid, fid, nDelete, nCall, m_loops>>

UB == {"crash", "proceed"}

Next ==
    \/ LoadVertex
    \/ LoadFace
    \/ LabelBoundary
    \/ \E f \in Range(m_faces) : DeleteFace(f)
    \/ \E f \in Range(m_faces) : SplitFace(f)
    \/ \E e \in Range(m_edges) : SplitEdge(e)
    \/ \E e \in Range(m_edges), ub \in UB : SwapEdge(e, ub)

Spec == Init /\ [][Next]_vars

\* ------------------------------------------- the construction interface
\* A read of a freed Edge can only happen once an Edge has been freed.
UBOf(M) == IF M.freed.edge = {} /\ M.freed.hedge = {} THEN {"none"} ELSE UB

InitApi ==
    /\ vert = EmptyMesh.vert /\ hedge = EmptyMesh.hedge
    /\ edge = EmptyMesh.edge /\ face = EmptyMesh.face
    /\ freed = EmptyMesh.freed
    /\ m_verts = <<>> /\ m_edges = <<>> /\ m_faces = <<>> /\ m_halfedges = <<>>
    /\ m_map_vert = <<>> /\ m_map_face = <<>>
    /\ m_vertex_id = 0 /\ m_face_id = 0
    /\ status = "ok"
    /\ ndebug \in BOOLEAN
    /\ soup \in SoupsApi
    /\ vid = 1 /\ fid = 1
    /\ last = [op |-> "construct", arg |-> NULL, ub |-> "none", pre |-> EmptyMesh, ret |-> NULL]
    /\ nEdit = 0 /\ nDelete = 0 /\ nCall = 0
    /\ m_loops = <<>>

\* a direct call create_edge(v1, v2) on two vertices of the mesh; `before`
\* remembers the call made just before it
CreateEdge(v1, v2, ub) ==
    /\ status = "ok" /\ Loaded /\ nCall < MaxCall
    /\ \E M0 \in {Cur} : \E r \in {create_edge(M0, v1, v2, ub)} :
          /\ Commit(r.M)
          /\ last' = [op |-> "create_edge", arg |-> <<v1, v2>>, ub |-> ub, pre |-> Cur,
                      ret |-> r.e,
                      before |-> [op |-> last.op, arg |-> last.arg, ret |-> last.ret]]
    /\ nCall' = nCall + 1
    /\ UNCHANGED <<ndebug, soup, vid, fid, nEdit, nDelete, m_loops>>

\* a direct call create_face(vs, fid++) with the vertices of face record k
\* of the input, all of them still in the mesh
CreateFace(k, ub) ==
    /\ status = "ok" /\ Loaded /\ nCall < MaxCall
    /\ \A i \in 1..3 : soup.fs[k][i] \in DOMAIN m_map_vert
                        /\ m_map_vert[soup.fs[k][i]] \in Range(m_verts)
    /\ \E M0 \in {Cur} :
          \E M \in {create_face(M0, [i \in 1..3 |-> M0.m_map_vert[soup.fs[k][i]]],
                                fid, ub, ndebug)} : Commit(M)
    /\ fid' = fid + 1
    /\ nCall' = nCall + 1
    /\ last' = Call("create_face", k, ub)
    /\ UNCHANGED <<ndebug, soup, vid, nEdit, nDelete, m_loops>>

Swapable(e, ub) ==
    /\ status = "ok" /\ Loaded /\ nCall < MaxCall
    /\ \E M0 \in {Cur} : \E r \in {swapable(M0, e, ub, ndebug)} :
          /\ Commit(r.M)
          /\ last' = CallRet("swapable", e, ub, r.ret)
    /\ nCall' = nCall + 1
    /\ UNCHANGED <<ndebug, soup, vid, fid, nEdit, nDelete, m_loops>>

\* CBoundary boundary(pMesh)
TraceBoundary(long, order) ==
    /\ status = "ok" /\ Loaded /\ nCall < MaxCall
    /\ \E M0 \in {Cur} : \E b \in {CBoundary(M0, long, order)} :
          /\ Commit([M0 EXCEPT !.status = b.status])
          /\ m_loops' = b.m_loops
          /\ last' = CallRet("CBoundary", long, order, b.traced)
    /\ nCall' = nCall + 1
    /\ UNCHANGED <<ndebug, soup, vid, fid, nEdit, nDelete>>

Orders == {"up", "down"}

NextApi ==
    \/ LoadVertex
    \/ LoadFace
    \/ LabelBoundary
    \/ \E f \in Range(m_faces) : DeleteFace(f)
    \/ \E v1, v2 \in Range(m_verts) : \E ub \in UBOf(Cur) : v1 # v2 /\ CreateEdge(v1, v2, ub)
    \/ \E k \in 1..Len(soup.fs) : \E ub \in UBOf(Cur) : CreateFace(k, ub)
    \/ \E e \in Range(m_edges), ub \in UB : Swapable(e, ub)
    \/ \E long \in Range(m_edges) \cup {NULL}, order \in Orders : TraceBoundary(long, order)

SpecApi == InitApi /\ [][NextApi]_vars

\* ------------------------------------------------- the sort of CBoundary
\* The vector m_loops as the tracing loop leaves it: loop i was traced i-th
\* and has length ls[i].
TracedLoops(ls) ==
    [i \in 1..Len(ls) |-> [m_pHalfedge |-> i, m_halfedges |-> <<i>>, m_length |-> ls[i],
                           m_segments |-> <<>>]]

InitSort ==
    /\ vert = EmptyMesh.vert /\ hedge = EmptyMesh.hedge
    /\ edge = EmptyMesh.edge /\ face = EmptyMesh.face
    /\ freed = EmptyMesh.freed
    /\ m_verts = <<>> /\ m_edges = <<>> /\ m_faces = <<>> /\ m_halfedges = <<>>
    /\ m_map_vert = <<>> /\ m_map_face = <<>>
    /\ m_vertex_id = 0 /\ m_face_id = 0
    /\ status = "ok"
    /\ ndebug \in BOOLEAN
    /\ soup = NoSoup
    /\ vid = 1 /\ fid = 1
    /\ \E n \in 0..MaxLoops : \E ls \in [1..n -> 1..MaxLength] :
          /\ m_loops = TracedLoops(ls)
          /\ last = [op |-> "trace", arg |-> NULL, ub |-> "none", pre |-> EmptyMesh,
                     ret |-> TracedLoops(ls)]
    /\ nEdit = 0 /\ nDelete = 0 /\ nCall = 0

\* _bubble_sort(m_loops), the last statement of the CBoundary constructor
SortLoops ==
    /\ last.op = "trace"
    /\ m_loops' = bubble_sort(m_loops)
    /\ last' = CallRet("_bubble_sort", NULL, "none", last.ret)
    /\ UNCHANGED <<meshVars, ndebug, soup, vid, fid, nEdit, nDelete, nCall>>

NextSort == SortLoops

SpecSort == InitSort /\ [][NextSort]_vars

\* ------------------------------------------------- boundary loops, divided
SoupsLoop == {Quad, TwoTris}

\* the vectors of 1..MaxMarkers distinct vertices of the mesh
MarkerSeqs ==
    UNION {{m \in [1..n -> Range(m_verts)] : \A j, k \in 1..n : j # k => m[j] # m[k]}
              : n \in 1..MaxMarkers}

InitLoop ==
    /\ vert = EmptyMesh.vert /\ hedge = EmptyMesh.hedge
    /\ edge = EmptyMesh.edge /\ face = EmptyMesh.face
    /\ freed = EmptyMesh.freed
    /\ m_verts = <<>> /\ m_edges = <<>> /\ m_faces = <<>> /\ m_halfedges = <<>>
    /\ m_map_vert = <<>> /\ m_map_face = <<>>
    /\ m_vertex_id = 0 /\ m_face_id = 0
    /\ status = "ok"
    /\ ndebug \in BOOLEAN
    /\ soup \in SoupsLoop
    /\ vid = 1 /\ fid = 1
    /\ last = [op |-> "construct", arg |-> NULL, ub |-> "none", pre |-> EmptyMesh, ret |-> NULL]
    /\ nEdit = 0 /\ nDelete = 0 /\ nCall = 0
    /\ m_loops = <<>>

\* boundary.loops()[i]->divide(markers); `loops` remembers the loops before it
Divide(i, markers) ==
    /\ status = "ok" /\ nCall < MaxCall
    /\ \E M0 \in {Cur} : \E d \in {divide(M0, m_loops[i], markers, ndebug)} :
          /\ Commit([M0 EXCEPT !.status = d.status])
          /\ m_loops' = [m_loops EXCEPT ![i].m_segments = d.m_segments]
          /\ last' = [op |-> "divide", arg |-> <<i, markers>>, ub |-> "none", pre |-> Cur,
                      ret |-> d.reported, loops |-> m_loops]
    /\ nCall' = nCall + 1
    /\ UNCHANGED <<ndebug, soup, vid, fid, nEdit, nDelete>>

NextLoop ==
    \/ LoadVertex
    \/ LoadFace
    \/ LabelBoundary
    \/ \E order \in Orders : TraceBoundary(NULL, order)
    \/ \E i \in 1..Len(m_loops) : \E markers \in MarkerSeqs : Divide(i, markers)

SpecLoop == InitLoop /\ [][NextLoop]_vars

\* ------------------------------------------------- the queries of a vertex
SoupsFan == {Tetra, Quad, Lone}

FanKinds == {"most_ccw_in_halfedge", "most_clw_in_halfedge",
             "most_ccw_out_halfedge", "most_clw_out_halfedge"}

\* v->most_..._halfedge()
fan(M, v, kind) ==
    CASE kind = "most_ccw_in_halfedge" -> most_ccw_in_halfedge(M, v)
      [] kind = "most_clw_in_halfedge" -> most_clw_in_halfedge(M, v)
      [] kind = "most_ccw_out_halfedge" -> most_ccw_out_halfedge(M, v)
      [] kind = "most_clw_out_halfedge" -> most_clw_out_halfedge(M, v)

InitFan ==
    /\ vert = EmptyMesh.vert /\ hedge = EmptyMesh.hedge
    /\ edge = EmptyMesh.edge /\ face = EmptyMesh.face
    /\ freed = EmptyMesh.freed
    /\ m_verts = <<>> /\ m_edges = <<>> /\ m_faces = <<>> /\ m_halfedges = <<>>
    /\ m_map_vert = <<>> /\ m_map_face = <<>>
    /\ m_vertex_id = 0 /\ m_face_id = 0
    /\ status = "ok"
    /\ ndebug \in BOOLEAN
    /\ soup \in SoupsFan
    /\ vid = 1 /\ fid = 1
    /\ last = [op |-> "construct", arg |-> NULL, ub |-> "none", pre |-> EmptyMesh, ret |-> NULL]
    /\ nEdit = 0 /\ nDelete = 0 /\ nCall = 0
    /\ m_loops = <<>>

FanQuery(v, kind) ==
    /\ status = "ok" /\ Loaded /\ nCall < MaxCall
    /\ \E M0 \in {Cur} : \E r \in {fan(M0, v, kind)} :
          /\ Commit(Outcome(M0, r.M))
          /\ last' = CallRet(kind, v, "none", r.he)
    /\ nCall' = nCall + 1
    /\ UNCHANGED <<ndebug, soup, vid, fid, nEdit, nDelete, m_loops>>

\* v->vertices()
Vertices(v, ub) ==
    /\ status = "ok" /\ Loaded /\ nCall < MaxCall
    /\ \E M0 \in {Cur} : \E M \in {Outcome(M0, vertices(M0, v, ub))} :
          /\ Commit(M)
          /\ last' = CallRet("vertices", v, ub, IF M.status = "ok" THEN M.vert[v].m_vertices ELSE <<>>)
    /\ nCall' = nCall + 1
    /\ UNCHANGED <<ndebug, soup, vid, fid, nEdit, nDelete, m_loops>>

NextFan ==
    \/ LoadVertex
    \/ LoadFace
    \/ LabelBoundary
    \/ \E f \in Range(m_faces) : DeleteFace(f)
    \/ \E k \in 1..Len(soup.fs) : \E ub \in UBOf(Cur) : CreateFace(k, ub)
    \/ \E v \in Range(m_verts), kind \in FanKinds : FanQuery(v, kind)
    \/ \E v \in Range(m_verts) : \E ub \in UBOf(Cur) : Vertices(v, ub)
    \/ \E order \in Orders : TraceBoundary(NULL, order)

SpecFan == InitFan /\ [][NextFan]_vars

\* ------------------------------------------------- swapEdge, over and over
\* An octahedron: every edge is interior and its two opposite vertices are
\* not joined.
Octa == [nv |-> 6, fs |-> << <<1, 2, 5>>, <<2, 3, 5>>, <<3, 4, 5>>, <<4, 1, 5>>,
                            <<2, 1, 6>>, <<3, 2, 6>>, <<4, 3, 6>>, <<1, 4, 6>> >>]
SoupsSwap == {Quad, Octa}

InitSwap ==
    /\ vert = EmptyMesh.vert /\ hedge = EmptyMesh.hedge
    /\ edge = EmptyMesh.edge /\ face = EmptyMesh.face
    /\ freed = EmptyMesh.freed
    /\ m_verts = <<>> /\ m_edges = <<>> /\ m_faces = <<>> /\ m_halfedges = <<>>
    /\ m_map_vert = <<>> /\ m_map_face = <<>>
    /\ m_vertex_id = 0 /\ m_face_id = 0
    /\ status = "ok"
    /\ ndebug \in BOOLEAN
    /\ soup \in SoupsSwap
    /\ vid = 1 /\ fid = 1
    /\ last = [op |-> "construct", arg |-> NULL, ub |-> "none", pre |-> EmptyMesh, ret |-> NULL]
    /\ nEdit = 0 /\ nDelete = 0 /\ nCall = 0
    /\ m_loops = <<>>

\* swapEdge(e); `origin` is the mesh before the first of the calls made on e
\* in a row and `count` the number of these calls, this one included.
SwapAgain(e, ub) ==
    /\ status = "ok" /\ Loaded /\ nEdit < MaxSwap
    /\ \E M0 \in {Cur} : \E M \in {swapEdge(M0, e, ub, ndebug)} : Commit(M)
    /\ nEdit' = nEdit + 1
    /\ last' = [op |-> "swapEdge", arg |-> e, ub |-> ub, pre |-> Cur, ret |-> NULL,
                origin |-> IF last.op = "swapEdge" /\ last.arg = e THEN last.origin ELSE Cur,
                count |-> IF last.op = "swapEdge" /\ last.arg = e THEN last.count + 1 ELSE 1]
    /\ UNCHANGED <<ndebug, soup, vid, fid, nDelete, nCall, m_loops>>

NextSwap ==
    \/ LoadVertex
    \/ LoadFace
    \/ \E e \in Range(m_edges), ub \in UB : SwapAgain(e, ub)

SpecSwap == InitSwap /\ [][NextSwap]_vars

\* ------------------------------------- adjacency queries around the editor
SoupsQuery == {Quad, Tetra}

FaceKinds == {"face.halfedges", "face.vertices", "face.edges"}

InitQuery ==
    /\ vert = EmptyMesh.vert /\ hedge = EmptyMesh.hedge
    /\ edge = EmptyMesh.edge /\ face = EmptyMesh.face
    /\ freed = EmptyMesh.freed
    /\ m_verts = <<>> /\ m_edges = <<>> /\ m_faces = <<>> /\ m_halfedges = <<>>
    /\ m_map_vert = <<>> /\ m_map_face = <<>>
    /\ m_vertex_id = 0 /\ m_face_id = 0
    /\ status = "ok"
    /\ ndebug \in BOOLEAN
    /\ soup \in SoupsQuery
    /\ vid = 1 /\ fid = 1
    /\ last = [op |-> "construct", arg |-> NULL, ub |-> "none", pre |-> EmptyMesh, ret |-> NULL]
    /\ nEdit = 0 /\ nDelete = 0 /\ nCall = 0
    /\ m_loops = <<>>

\* f->halfedges(), f->vertices(), f->edges()
FaceQuery(f, kind) ==
    /\ status = "ok" /\ Loaded /\ nCall < MaxCall
    /\ \E M0 \in {Cur} :
          \E M \in {Outcome(M0, CASE kind = "face.halfedges" -> face_halfedges(M0, f)
                                    [] kind = "face.vertices" -> face_vertices(M0, f)
                                    [] kind = "face.edges" -> face_edges(M0, f))} :
              /\ Commit(M)
              /\ last' = CallRet(kind, f, "none",
                                 IF M.status # "ok" THEN <<>>
                                 ELSE CASE kind = "face.halfedges" -> M.face[f].m_halfedges
                                        [] kind = "face.vertices" -> M.face[f].m_vertices
                                        [] kind = "face.edges" -> M.face[f].m_edges)
    /\ nCall' = nCall + 1
    /\ UNCHANGED <<ndebug, soup, vid, fid, nEdit, nDelete, m_loops>>

\* v->edges(); the read of a vector written through the list cast is the
\* only undefined step.
Edges(v, ub) ==
    /\ status = "ok" /\ Loaded /\ nCall < MaxCall
    /\ ub \in (IF vert[v].edgesIntact THEN {"none"} ELSE UB)
    /\ \E M0 \in {Cur} : \E M \in {Outcome(M0, edges(M0, v, ub))} :
          /\ Commit(M)
          /\ last' = CallRet("edges", v, ub, IF M.status = "ok" THEN M.vert[v].m_edges ELSE <<>>)
    /\ nCall' = nCall + 1
    /\ UNCHANGED <<ndebug, soup, vid, fid, nEdit, nDelete, m_loops>>

\* splitFace(x), splitEdge(x) or swapEdge(x)
Mutate(op, x, ub) ==
    /\ status = "ok" /\ Loaded /\ nEdit < MaxMutate
    /\ \E M0 \in {Cur} :
          \E M \in {CASE op = "splitFace" -> splitFace(M0, x)
                       [] op = "splitEdge" -> splitEdge(M0, x, ndebug)
                       [] op = "swapEdge" -> swapEdge(M0, x, ub, ndebug)} : Commit(M)
    /\ nEdit' = nEdit + 1
    /\ last' = Call(op, x, ub)
    /\ UNCHANGED <<ndebug, soup, vid, fid, nDelete, nCall, m_loops>>

NextQuery ==
    \/ LoadVertex
    \/ LoadFace
    \/ LabelBoundary
    \/ \E f \in Range(m_faces) : Mutate("splitFace", f, "none")
    \/ \E e \in Range(m_edges) : Mutate("splitEdge", e, "none")
    \/ \E e \in Range(m_edges), ub \in UB : Mutate("swapEdge", e, ub)
    \/ \E f \in Range(m_faces), kind \in FaceKinds : FaceQuery(f, kind)
    \/ \E v \in Range(m_verts) : Vertices(v, "none")
    \/ \E v \in Range(m_verts), ub \in UB \cup {"none"} : Edges(v, ub)

SpecQuery == InitQuery /\ [][NextQuery]_vars

\* =================================================================== claims
Live(M) == M.status = "ok"
num_vertices(M) == Len(M.m_verts)
num_edges(M) == Len(M.m_edges)
num_faces(M) == Len(M.m_faces)

\* The three half-edges of face f, walked with next from f->halfedge().
FaceCycle(M, f) ==
    LET a == M.face[f].m_halfedge
    IN  <<a, next(M, a), next(M, next(M, a))>>

\* The vertex triple of face f, as targets of its cycle.
FaceTriple(M, f) ==
    LET c == FaceCycle(M, f)
    IN  <<target(M, c[1]), target(M, c[2]), target(M, c[3])>>

Rotations(t) == {t, <<t[2], t[3], t[1]>>, <<t[3], t[1], t[2]>>}

\* The unordered endpoint pair of edge e, read from halfedge(0).
EndPoints(M, e) ==
    {source(M, M.edge[e].m_halfedge[0]), target(M, M.edge[e].m_halfedge[0])}

\* An edge has one or two half-edges, and two are mutual duals running in
\* opposite directions.
EdgeWellFormed(M, e) ==
    LET h0 == M.edge[e].m_halfedge[0]
        h1 == M.edge[e].m_halfedge[1]
    IN  /\ h0 # NULL \/ h1 # NULL
        /\ (h0 # NULL /\ h1 # NULL) =>
              /\ dual(M, h0) = h1 /\ dual(M, h1) = h0
              /\ dual(M, dual(M, h0)) = h0 /\ dual(M, dual(M, h1)) = h1
              /\ target(M, h0) = source(M, h1) /\ target(M, h1) = source(M, h0)

\* C1: after bulk construction from a consistently oriented manifold soup and
\* any later splitFace / splitEdge / swapEdge calls, every edge of the mesh has
\* one or two half-edges and two half-edges of an edge are mutual duals that
\* run in opposite directions.
C1_EdgesWellFormed ==
    nDelete = 0 => \A e \in Range(m_edges) : EdgeWellFormed(Cur, e)

\* ---- the last call, seen from the state it produced
Pre == last.pre
Returned == status = "ok"

\* A face is a closed cycle of three half-edges that all reference it.
FaceWellFormed(M, f) ==
    LET c == FaceCycle(M, f)
    IN  /\ \A i \in 1..3 :
              /\ c[i] # NULL
              /\ prev(M, next(M, c[i])) = c[i]
              /\ next(M, prev(M, c[i])) = c[i]
              /\ next(M, next(M, next(M, c[i]))) = c[i]
              /\ next(M, c[i]) # c[i] /\ next(M, next(M, c[i])) # c[i]
              /\ M.hedge[c[i]].m_face = f
        /\ M.face[f].m_halfedge \in Range(c)

\* C2: after every completed operation every face still in the mesh is a
\* closed next/prev cycle of exactly three half-edges, all of which reference
\* the face, and the face references one of them.
C2_FacesAreTriangles ==
    Live(Cur) => \A f \in Range(m_faces) : FaceWellFormed(Cur, f)

\* No two distinct Edge objects of the edge list join the same vertex pair.
NoDuplicateEdges(M) ==
    \A e1, e2 \in Range(M.m_edges) :
        (e1 # e2 /\ M.edge[e1].m_halfedge[0] # NULL /\ M.edge[e2].m_halfedge[0] # NULL)
            => EndPoints(M, e1) # EndPoints(M, e2)

\* C3: after any sequence of create_face, splitFace, splitEdge and swapEdge
\* calls, no two distinct Edge objects of the edge list connect the same
\* unordered pair of vertices.
C3_UniqueEdges ==
    (Live(Cur) /\ nDelete = 0) => NoDuplicateEdges(Cur)

C2_Witness ==
    /\ last.op = "delete_face" /\ Returned
    /\ Len(Pre.m_faces) > Len(soup.fs)

EulerCharacteristic(M) == num_vertices(M) - num_edges(M) + num_faces(M)

\* C4: a closed genus-0 mesh built by create_face has V - E + F = 2, and the
\* value stays 2 after any sequence of splitFace, splitEdge and swapEdge calls.
C4_Euler ==
    (soup = Tetra /\ Loaded /\ nDelete = 0) => EulerCharacteristic(Cur) = 2

C4_Witness ==
    /\ soup = Tetra /\ Returned /\ nDelete = 0
    /\ last.op = "swapEdge" /\ Pre.edge[last.arg].m_halfedge[1] # NULL
    /\ num_vertices(Cur) > soup.nv

\* Edges of the edge list incident to vertex v.
IncidentEdges(M, v) ==
    {e \in Range(M.m_edges) : M.edge[e].m_halfedge[0] # NULL /\ v \in EndPoints(M, e)}

Joined(M, a, b) ==
    \E e \in Range(M.m_edges) : M.edge[e].m_halfedge[0] # NULL /\ EndPoints(M, e) = {a, b}

\* Face f has an edge with an empty half-edge slot.
HasBoundaryEdge(M, f) ==
    \E i \in 1..3 : dual(M, FaceCycle(M, f)[i]) = NULL

SplitCounts ==
    /\ num_faces(Cur) = num_faces(Pre) + 2
    /\ num_vertices(Cur) = num_vertices(Pre) + 1
    /\ num_edges(Cur) = num_edges(Pre) + 3

\* C5: splitFace on any triangle of the mesh, one with boundary edges
\* included, completes and adds 2 faces, 1 vertex and 3 edges.
C5_SplitFaceCounts ==
    last.op = "splitFace" => (Returned /\ SplitCounts)

\* Half-edge h lies on an interior edge: it fills one slot of its edge and
\* the other slot holds its dual, running the opposite way.
InteriorSide(M, h) ==
    LET e == M.hedge[h].m_edge
    IN  /\ h \in {M.edge[e].m_halfedge[0], M.edge[e].m_halfedge[1]}
        /\ M.edge[e].m_halfedge[0] # NULL /\ M.edge[e].m_halfedge[1] # NULL
        /\ EdgeWellFormed(M, e)

\* Face f has three different corners and three interior edges.
InteriorTriangle(M, f) ==
    /\ Cardinality(Range(FaceTriple(M, f))) = 3
    /\ \A i \in 1..3 : InteriorSide(M, FaceCycle(M, f)[i])

\* C6: splitFace on a triangle (v0,v1,v2) with three interior edges replaces
\* it by (v0,v1,p), (v1,v2,p), (v2,v0,p); p has exactly 3 incident edges, each
\* of v0,v1,v2 gains exactly the edge to p, every other face keeps its triple.
C6_SplitFaceShape ==
    (last.op = "splitFace" /\ InteriorTriangle(Pre, last.arg)) =>
        LET t == FaceTriple(Pre, last.arg)
            p == Len(Pre.vert) + 1
            newFaces == {last.arg, Len(Pre.face) + 1, Len(Pre.face) + 2}
            want == {<<t[1], t[2], p>>, <<t[2], t[3], p>>, <<t[3], t[1], p>>}
        IN  /\ Returned
            /\ Range(m_faces) = Range(Pre.m_faces) \cup newFaces
            /\ Len(m_faces) = Len(Pre.m_faces) + 2
            /\ \A w \in want : \E f \in newFaces : FaceTriple(Cur, f) \in Rotations(w)
            /\ \A f \in newFaces : \E w \in want : FaceTriple(Cur, f) \in Rotations(w)
            /\ Cardinality(IncidentEdges(Cur, p)) = 3
            /\ \A i \in 1..3 :
                  /\ IncidentEdges(Pre, t[i]) \subseteq IncidentEdges(Cur, t[i])
                  /\ \E e \in Range(m_edges) :
                        /\ IncidentEdges(Cur, t[i]) = IncidentEdges(Pre, t[i]) \cup {e}
                        /\ e \notin IncidentEdges(Pre, t[i])
                        /\ EndPoints(Cur, e) = {t[i], p}
            /\ \A f \in Range(Pre.m_faces) \ {last.arg} :
                  FaceTriple(Cur, f) = FaceTriple(Pre, f)

C6_Witness ==
    /\ last.op = "splitFace" /\ Returned
    /\ InteriorTriangle(Pre, last.arg)
    /\ soup = Flaps

\* Edge e has both half-edge slots filled.
Interior(M, e) == M.edge[e].m_halfedge[0] # NULL /\ M.edge[e].m_halfedge[1] # NULL

\* The four edges around the two triangles of interior edge e.
QuadEdges(M, e) == {SwapFrame(M, e).pe[i] : i \in {1, 2, 4, 5}}

\* Some edge of the quad around e is a boundary edge.
QuadOnBoundary(M, e) == \E q \in QuadEdges(M, e) : ~Interior(M, q)

\* Faces of the face list that have vertex v as a corner.
FacesAt(M, v) ==
    {f \in Range(M.m_faces) : \E i \in 1..3 : FaceTriple(M, f)[i] = v}

\* What the claims say splitEdge leaves behind.
SplitEdgeShape ==
    LET F == SwapFrame(Pre, last.arg)
        p == Len(Pre.vert) + 1
    IN  /\ SplitCounts
        /\ \A i \in 0..3 : Joined(Cur, p, F.pv[i])
        /\ Cardinality(FacesAt(Cur, p)) = 4
        /\ FacesAt(Cur, p) =
              {Pre.hedge[F.ph[0]].m_face, Pre.hedge[F.ph[3]].m_face,
               Len(Pre.face) + 1, Len(Pre.face) + 2}

\* C7: splitEdge on any interior edge, one whose surrounding quad edges lie
\* on the boundary included, completes, adds 2 faces, 3 edges and 1 vertex,
\* joins the new vertex to both former endpoints and both apexes, and leaves
\* four triangles around the new vertex.
C7_SplitEdgeInterior ==
    (last.op = "splitEdge" /\ Interior(Pre, last.arg)) => (Returned /\ SplitEdgeShape)

\* What the claims say swapEdge leaves behind.
SwapShape ==
    LET e == last.arg
        F == SwapFrame(Pre, e)
    IN  /\ EndPoints(Cur, e) = {F.pv[1], F.pv[3]}
        /\ FaceTriple(Cur, Pre.hedge[F.ph[0]].m_face) \in Rotations(<<F.pv[1], F.pv[2], F.pv[3]>>)
        /\ FaceTriple(Cur, Pre.hedge[F.ph[3]].m_face) \in Rotations(<<F.pv[3], F.pv[0], F.pv[1]>>)
        /\ \A q \in QuadEdges(Pre, e) :
              /\ EndPoints(Cur, q) = EndPoints(Pre, q)
              /\ EdgeWellFormed(Cur, q)
        /\ EdgeWellFormed(Cur, e)
        /\ num_vertices(Cur) = num_vertices(Pre)
        /\ num_edges(Cur) = num_edges(Pre)
        /\ num_faces(Cur) = num_faces(Pre)
        /\ Len(vert) = Len(Pre.vert) /\ Len(hedge) = Len(Pre.hedge)
        /\ Len(edge) = Len(Pre.edge) /\ Len(face) = Len(Pre.face)
        /\ freed = Pre.freed

\* C8: swapEdge on an interior edge between (a,b,c) and (b,a,d) makes the
\* same Edge join c and d, turns the faces into (c,d,b) and (d,c,a), keeps
\* the endpoint pairs and duals of the four surrounding edges and keeps all
\* counts, allocating and freeing nothing.
C8_SwapRelinks ==
    (last.op = "swapEdge" /\ Interior(Pre, last.arg)) => (Returned /\ SwapShape)

\* The relinking of C8 on the calls that return.
C8_SwapRelinksOnReturn ==
    (last.op = "swapEdge" /\ Interior(Pre, last.arg) /\ Returned) => SwapShape

\* C9: after swapEdge on interior edge (a,b) with opposite vertices c and d,
\* edge(c,d) returns the swapped Edge and edge(a,b) returns none: the Edge has
\* left the candidate list of the smaller-id vertex of {a,b} and entered the
\* candidate list of the smaller-id vertex of {c,d}.
C9_LookupFollowsSwap ==
    (last.op = "swapEdge" /\ Interior(Pre, last.arg) /\ Returned) =>
        LET e == last.arg
            F == SwapFrame(Pre, e)
            a == F.pv[2]
            b == F.pv[0]
            c == F.pv[1]
            d == F.pv[3]
        IN  /\ edgeOf(Cur, c, d, last.ub) = e
            /\ edgeOf(Cur, a, b, last.ub) = NULL
            /\ e \notin Range(vert[SmallerId(Cur, a, b)].m_ledges)
            /\ e \in Range(vert[SmallerId(Cur, c, d)].m_ledges)

\* C10: swapEdge on a boundary edge (second half-edge slot empty) is a
\* no-op: counts, half-edge links, edge slots, vertex representatives and
\* candidate lists are the same before and after the call.
C10_BoundarySwapNoOp ==
    (last.op = "swapEdge" /\ Pre.edge[last.arg].m_halfedge[1] = NULL) => Cur = Pre

C10_Witness ==
    /\ last.op = "swapEdge" /\ Pre.edge[last.arg].m_halfedge[1] = NULL
    /\ Pre.edge[last.arg].m_halfedge[0] # NULL
    /\ status = "ok" /\ num_edges(Cur) > 0

\* ------------------------------------------- the construction interface
\* The vertices c and d opposite interior edge e of mesh M.
Opposite(M, e) == {SwapFrame(M, e).pv[1], SwapFrame(M, e).pv[3]}

OppositeJoined(M, e) ==
    \E q \in Range(M.m_edges) :
        M.edge[q].m_halfedge[0] # NULL /\ EndPoints(M, q) = Opposite(M, e)

\* C11: swapable(edge) returns false for a boundary edge; for an interior
\* edge between (a,b,c) and (b,a,d) it returns false when an edge between c
\* and d already exists and true when none does.
C11_Swapable ==
    last.op = "swapable" =>
        /\ Returned
        /\ last.ret = (Interior(Pre, last.arg) /\ ~OppositeJoined(Pre, last.arg))

\* The part of C11 about boundary edges.
C11_BoundaryNotSwapable ==
    (last.op = "swapable" /\ ~Interior(Pre, last.arg)) => (Returned /\ last.ret = FALSE)

\* swapable answers true for every interior edge on which it returns.
C11_InteriorAlwaysSwapable ==
    (last.op = "swapable" /\ Interior(Pre, last.arg) /\ Returned /\ nDelete = 0)
        => last.ret = TRUE

\* create_edge(v1, v2) was called right after create_edge(v2, v1).
SecondOfPair ==
    /\ last.before.op = "create_edge"
    /\ last.before.arg = <<last.arg[2], last.arg[1]>>

\* C12: create_edge(v1,v2) returns the existing Edge between v1 and v2,
\* whatever the argument order and whether or not its slots are filled, and
\* leaves num_edges alone; only when there is none it allocates an Edge with
\* two empty slots and num_edges grows by 1.  create_edge(v1,v2) followed by
\* create_edge(v2,v1) returns the same Edge both times.
C12_CreateEdge ==
    last.op = "create_edge" =>
        /\ Returned
        /\ IF SecondOfPair
           THEN last.ret = last.before.ret /\ num_edges(Cur) = num_edges(Pre)
           ELSE IF Joined(Pre, last.arg[1], last.arg[2])
           THEN /\ last.ret \in Range(Pre.m_edges)
                /\ EndPoints(Pre, last.ret) = {last.arg[1], last.arg[2]}
                /\ num_edges(Cur) = num_edges(Pre)
           ELSE /\ last.ret \notin Range(Pre.m_edges)
                /\ last.ret \in Range(m_edges)
                /\ edge[last.ret].m_halfedge[0] = NULL /\ edge[last.ret].m_halfedge[1] = NULL
                /\ num_edges(Cur) = num_edges(Pre) + 1

\* C12 on meshes whose edges all have a half-edge in slot 0 and from which
\* no face was deleted.
C12_CreateEdgeOnFilledEdges ==
    (last.op = "create_edge" /\ nDelete = 0
        /\ \A e \in Range(Pre.m_edges) : Pre.edge[e].m_halfedge[0] # NULL)
    => /\ Returned
       /\ IF Joined(Pre, last.arg[1], last.arg[2])
          THEN /\ last.ret \in Range(Pre.m_edges)
               /\ EndPoints(Pre, last.ret) = {last.arg[1], last.arg[2]}
               /\ num_edges(Cur) = num_edges(Pre)
          ELSE /\ last.ret \notin Range(Pre.m_edges)
               /\ last.ret \in Range(m_edges)
               /\ edge[last.ret].m_halfedge[0] = NULL /\ edge[last.ret].m_halfedge[1] = NULL
               /\ num_edges(Cur) = num_edges(Pre) + 1

\* The vertex list of the last create_face call: the vertices the id map of
\* the mesh held for face record k of the input (NULL for an id it lacks).
FaceArgs ==
    [i \in 1..3 |-> IF soup.fs[last.arg][i] \in DOMAIN Pre.m_map_vert
                    THEN Pre.m_map_vert[soup.fs[last.arg][i]] ELSE NULL]

\* Edges of the edge list that join a and b and have both slots filled.
FullEdges(M, a, b) ==
    {e \in Range(M.m_edges) : Interior(M, e) /\ EndPoints(M, e) = {a, b}}

\* C13: create_face on a vertex list with two consecutive vertices joined by
\* an edge whose two slots are filled leaves the mesh unchanged: num_faces,
\* num_edges, the face id map, the half-edge list, the representatives of the
\* vertices and both slots of that edge.
C13_IllegalFaceRejected ==
    (last.op = "create_face" /\ (\A i \in 1..3 : FaceArgs[i] # NULL)
        /\ \E i \in 1..3 : FullEdges(Pre, FaceArgs[i], FaceArgs[(i % 3) + 1]) # {})
    => /\ num_faces(Cur) = num_faces(Pre)
       /\ num_edges(Cur) = num_edges(Pre)
       /\ m_map_face = Pre.m_map_face
       /\ m_halfedges = Pre.m_halfedges
       /\ \A v \in 1..Len(Pre.vert) : vert[v].m_halfedge = Pre.vert[v].m_halfedge
       /\ \A i \in 1..3 : \A e \in FullEdges(Pre, FaceArgs[i], FaceArgs[(i % 3) + 1]) :
             edge[e].m_halfedge = Pre.edge[e].m_halfedge

\* C14: a face record that references a vertex id that was never created
\* does not end the process in a fault, creates no face, and adds no entry
\* for the missing id to the id-to-vertex map.
C14_MissingVertexReported ==
    (last.op = "create_face"
        /\ \E i \in 1..3 : soup.fs[last.arg][i] \notin DOMAIN Pre.m_map_vert)
    => /\ status # "crashed"
       /\ num_faces(Cur) = num_faces(Pre)
       /\ \A i \in 1..3 : soup.fs[last.arg][i] \notin DOMAIN Pre.m_map_vert
                             => soup.fs[last.arg][i] \notin DOMAIN m_map_vert

\* The three half-edges face f had in the mesh the last call ran on.
OldCycle == FaceCycle(Pre, last.arg)

\* Every candidate list of a vertex still in the mesh.
Candidates(M) == UNION {Range(M.vert[v].m_ledges) : v \in Range(M.m_verts)}

\* C15: after delete_face(f) each edge of f has lost the removed half-edge
\* and kept its other half-edge, if it had one; an edge left with no
\* half-edge is gone from the edge list and from the candidate lists of the
\* vertices, so that no later lookup or create_edge walks over it.
C15_DeleteFaceDetaches ==
    (last.op = "delete_face" /\ Returned) =>
        \A i \in 1..3 :
            LET pH == OldCycle[i]
                pE == Pre.hedge[pH].m_edge
                pS == dual(Pre, pH)
            IN  /\ edge[pE].m_halfedge[0] # pH /\ edge[pE].m_halfedge[1] # pH
                /\ pS # NULL => pS \in {edge[pE].m_halfedge[0], edge[pE].m_halfedge[1]}
                /\ pS = NULL => (pE \notin Range(m_edges) /\ pE \notin Candidates(Cur))

\* The part of C15 about the slots and the edge list.
C15_SlotsAndEdgeList ==
    (last.op = "delete_face" /\ Returned /\ nCall = 0) =>
        \A i \in 1..3 :
            LET pH == OldCycle[i]
                pE == Pre.hedge[pH].m_edge
                pS == dual(Pre, pH)
            IN  /\ edge[pE].m_halfedge[0] # pH /\ edge[pE].m_halfedge[1] # pH
                /\ pS # NULL => pS \in {edge[pE].m_halfedge[0], edge[pE].m_halfedge[1]}
                /\ pS = NULL => pE \notin Range(m_edges)

\* Half-edge h belongs to a face of the face list and has not been freed.
LiveHalfEdge(M, h) ==
    /\ h \in 1..Len(M.hedge) /\ h \notin M.freed.hedge
    /\ M.hedge[h].m_face \in Range(M.m_faces)
    /\ h \in Range(FaceCycle(M, M.hedge[h].m_face))

\* The representative of v is an incoming half-edge of a face of the mesh.
RepValid(M, v) ==
    /\ M.vert[v].m_halfedge # NULL
    /\ LiveHalfEdge(M, M.vert[v].m_halfedge)
    /\ target(M, M.vert[v].m_halfedge) = v

\* Triangles, edges with one or two half-edges that are each other's dual, no
\* two edges on one vertex pair, every half-edge of a face in a slot of its
\* edge.
Manifold(M) ==
    /\ \A f \in Range(M.m_faces) :
          /\ FaceWellFormed(M, f)
          /\ Cardinality(Range(FaceTriple(M, f))) = 3
          /\ \A i \in 1..3 :
                LET h == FaceCycle(M, f)[i]
                IN  /\ M.hedge[h].m_edge \in Range(M.m_edges)
                    /\ h \in {M.edge[M.hedge[h].m_edge].m_halfedge[0],
                              M.edge[M.hedge[h].m_edge].m_halfedge[1]}
                    /\ target(M, h) \in Range(M.m_verts)
    /\ \A e \in Range(M.m_edges) :
          /\ M.edge[e].m_halfedge[0] # NULL
          /\ EdgeWellFormed(M, e)
          /\ \A i \in {0, 1} : M.edge[e].m_halfedge[i] # NULL =>
                /\ LiveHalfEdge(M, M.edge[e].m_halfedge[i])
                /\ M.hedge[M.edge[e].m_halfedge[i]].m_edge = e
    /\ NoDuplicateEdges(M)

\* A valid mesh: a manifold with every vertex that has a face around it
\* represented.
ValidMesh(M) ==
    /\ Manifold(M)
    /\ \A v \in Range(M.m_verts) : FacesAt(M, v) # {} => RepValid(M, v)

\* C16: delete_face(f) completes for every face f of a valid mesh; after it
\* every corner v of f that still has a face around it is represented by a
\* half-edge of a remaining face whose target is v, and the representative of
\* v is empty only if no remaining face is incident to v.
C16_DeleteFaceReseats ==
    (last.op = "delete_face" /\ ValidMesh(Pre)) =>
        /\ Returned
        /\ \A i \in 1..3 :
              LET v == target(Pre, OldCycle[i])
              IN  IF FacesAt(Cur, v) # {} THEN RepValid(Cur, v)
                  ELSE vert[v].m_halfedge = NULL

\* Edge e has exactly one half-edge.
OneSided(M, e) ==
    (M.edge[e].m_halfedge[0] = NULL) # (M.edge[e].m_halfedge[1] = NULL)

\* C17: after label_boundary() on a mesh reached by create_face and
\* delete_face calls and earlier label_boundary runs, every endpoint of an
\* edge with only one half-edge is flagged boundary and every vertex all of
\* whose incident edges have two half-edges is flagged interior.
C17_LabelBoundary ==
    (last.op = "label_boundary" /\ ValidMesh(Pre)) =>
        /\ Returned
        /\ \A e \in Range(m_edges) : OneSided(Cur, e) =>
              \A v \in EndPoints(Cur, e) : vert[v].m_boundary
        /\ \A v \in Range(m_verts) :
              (\A e \in IncidentEdges(Cur, v) : Interior(Cur, e)) => ~vert[v].m_boundary

\* The part of C17 about the endpoints of one-sided edges.
C17_BoundaryEndpointsFlagged ==
    (last.op = "label_boundary" /\ ValidMesh(Pre)) =>
        /\ Returned
        /\ \A e \in Range(m_edges) : OneSided(Cur, e) =>
              \A v \in EndPoints(Cur, e) : vert[v].m_boundary

\* vertex(id), for the ids the map holds
VertexIds(M, v) == {id \in DOMAIN M.m_map_vert : M.m_map_vert[id] = v}

\* C18: after label_boundary() every vertex without a representative
\* half-edge is gone from the vertex list and vertex(id) no longer returns
\* it, and every vertex with a representative is kept.
C18_DanglingRemoved ==
    (last.op = "label_boundary" /\ Returned) =>
        \A v \in Range(Pre.m_verts) :
            IF Pre.vert[v].m_halfedge = NULL
            THEN v \notin Range(m_verts) /\ VertexIds(Cur, v) = {}
            ELSE v \in Range(m_verts)

\* The part of C18 about the vertex list.
C18_VertexList ==
    (last.op = "label_boundary" /\ Returned) =>
        \A v \in Range(Pre.m_verts) :
            (Pre.vert[v].m_halfedge = NULL) <=> (v \notin Range(m_verts))

\* Every endpoint of an edge with one half-edge is flagged boundary.
BoundaryLabeled(M) ==
    \A e \in Range(M.m_edges) : OneSided(M, e) =>
        \A v \in EndPoints(M, e) : M.vert[v].m_boundary

\* The half-edges of the faces of M that have no dual.
BoundaryHalfEdges(M) ==
    {h \in 1..Len(M.hedge) : LiveHalfEdge(M, h) /\ dual(M, h) = NULL}

\* The places (loop, position) at which half-edge h occurs in the loops.
Places(loops, h) ==
    UNION {{<<i, j>> : j \in {k \in 1..Len(loops[i].m_halfedges) : loops[i].m_halfedges[k] = h}} :
              i \in 1..Len(loops)}

\* C19: on a boundary-labeled manifold mesh the CBoundary constructor yields
\* loops that partition the boundary half-edges: every half-edge without a
\* dual is in exactly one loop, once; every half-edge of a loop has no dual;
\* in a loop the target of each half-edge is the source of the next,
\* cyclically.  For the flat quad there is one loop, of 4 half-edges.
C19_LoopsPartitionBoundary ==
    (last.op = "CBoundary" /\ ValidMesh(Pre) /\ BoundaryLabeled(Pre)) =>
        /\ Returned
        /\ \A h \in BoundaryHalfEdges(Cur) : Cardinality(Places(m_loops, h)) = 1
        /\ \A i \in 1..Len(m_loops) :
              LET hs == m_loops[i].m_halfedges
              IN  /\ hs # <<>>
                  /\ \A j \in 1..Len(hs) :
                        /\ hs[j] \in BoundaryHalfEdges(Cur)
                        /\ target(Cur, hs[j]) = source(Cur, hs[(j % Len(hs)) + 1])
        /\ (soup = Quad /\ num_faces(Cur) = 2) =>
              (Len(m_loops) = 1 /\ Len(m_loops[1].m_halfedges) = 4)

C19_Witness ==
    /\ last.op = "CBoundary" /\ Returned
    /\ ValidMesh(Pre) /\ BoundaryLabeled(Pre)
    /\ soup = TwoTris /\ Len(m_loops) = 2

\* ------------------------------------------------- the sort of CBoundary
\* The position at which loop L was traced.
TracedAt(traced, L) == CHOOSE i \in 1..Len(traced) : traced[i] = L

\* C20: after the CBoundary constructor the loop list is a permutation of
\* the traced loops in order of non-increasing length, and loops of equal
\* length keep the order in which they were traced, for any number of loops
\* (0 and 1 included).
C20_SortedStable ==
    last.op = "_bubble_sort" =>
        /\ Len(m_loops) = Len(last.ret)
        /\ \A i \in 1..Len(last.ret) :
              Cardinality({j \in 1..Len(m_loops) : m_loops[j] = last.ret[i]}) = 1
        /\ \A j \in 1..(Len(m_loops) - 1) : m_loops[j].m_length >= m_loops[j + 1].m_length
        /\ \A j, k \in 1..Len(m_loops) :
              (j < k /\ m_loops[j].m_length = m_loops[k].m_length)
                  => TracedAt(last.ret, m_loops[j]) < TracedAt(last.ret, m_loops[k])

C20_Witness ==
    /\ last.op = "_bubble_sort"
    /\ Len(m_loops) >= 3 /\ m_loops # last.ret
    /\ \E j, k \in 1..Len(m_loops) : j < k /\ m_loops[j].m_length = m_loops[k].m_length

\* ------------------------------------------------------------ CLoop::divide
\* The argument of the last divide call: the loop before it and the markers.
DividedLoop == last.loops[last.arg[1]]
Markers == last.arg[2]

\* The loop after the call, and the segments the call pushed.
LoopNow == m_loops[last.arg[1]]
Added == SubSeq(LoopNow.m_segments, Len(DividedLoop.m_segments) + 1, Len(LoopNow.m_segments))

\* L is a loop as the tracer leaves it on M: half-edges without a dual, each
\* ending where the next starts, no vertex passed twice.
IsTracedLoop(M, L) ==
    LET hs == L.m_halfedges
    IN  /\ hs # <<>>
        /\ \A j \in 1..Len(hs) :
              /\ hs[j] \in BoundaryHalfEdges(M)
              /\ target(M, hs[j]) = source(M, hs[(j % Len(hs)) + 1])
        /\ \A j, k \in 1..Len(hs) : j # k => source(M, hs[j]) # source(M, hs[k])

\* hs read from position j on, cyclically
Rotation(hs, j) == SubSeq(hs, j, Len(hs)) \o SubSeq(hs, 1, j - 1)

\* The position on the loop at which v is the source of the half-edge (0: none).
PosOnLoop(M, hs, v) ==
    IF \E j \in 1..Len(hs) : source(M, hs[j]) = v
    THEN CHOOSE j \in 1..Len(hs) : source(M, hs[j]) = v
    ELSE 0

\* The markers all lie on the loop and follow each other in the direction of
\* the loop, starting from the first.
MarkersInLoopOrder(M, L, markers) ==
    /\ \A k \in 1..Len(markers) : PosOnLoop(M, L.m_halfedges, markers[k]) # 0
    /\ LET rot == Rotation(L.m_halfedges, PosOnLoop(M, L.m_halfedges, markers[1]))
       IN  \A k \in 1..(Len(markers) - 1) :
              PosOnLoop(M, rot, markers[k]) < PosOnLoop(M, rot, markers[k + 1])

RECURSIVE Concat(_)
Concat(segs) == IF segs = <<>> THEN <<>> ELSE Head(segs).m_halfedges \o Concat(Tail(segs))

\* C21: divide(markers) on a traced loop, with distinct markers on the loop
\* given in loop order, returns without an error and pushes exactly
\* len(markers) segments; segment k starts at the half-edge leaving
\* markers[k] and ends at the half-edge entering the next marker
\* (cyclically); the segments in order are the loop's half-edges read from
\* markers[0] on, so each half-edge of the loop is in exactly one segment.
C21_DivideSegments ==
    (/\ last.op = "divide"
     /\ ValidMesh(Pre) /\ BoundaryLabeled(Pre)
     /\ IsTracedLoop(Pre, DividedLoop)
     /\ MarkersInLoopOrder(Pre, DividedLoop, Markers)) =>
        /\ Returned
        /\ ~last.ret
        /\ Len(Added) = Len(Markers)
        /\ \A k \in 1..Len(Added) :
              LET hes == Added[k].m_halfedges
              IN  /\ hes # <<>>
                  /\ source(Cur, hes[1]) = Markers[k]
                  /\ target(Cur, hes[Len(hes)]) =
                        Markers[IF k = Len(Markers) THEN 1 ELSE k + 1]
        /\ Concat(Added) = Rotation(DividedLoop.m_halfedges,
                                    PosOnLoop(Pre, DividedLoop.m_halfedges, Markers[1]))
        /\ LoopNow.m_halfedges = DividedLoop.m_halfedges

C21_Witness ==
    /\ last.op = "divide" /\ Returned
    /\ ValidMesh(Pre) /\ BoundaryLabeled(Pre)
    /\ IsTracedLoop(Pre, DividedLoop)
    /\ MarkersInLoopOrder(Pre, DividedLoop, Markers)
    /\ Len(Markers) = 3 /\ Len(DividedLoop.m_halfedges) = 4
    /\ Len(Added) = 3
    /\ PosOnLoop(Pre, DividedLoop.m_halfedges, Markers[1]) > 1

\* C22: a divide(markers) call that reports a failure (the first marker is
\* not found in one rotation, or the half-edges run out before the next
\* marker) leaves the loop as it was: same half-edges, same length, and no
\* segment pushed.
C22_DivideFailureLeavesLoop ==
    (/\ last.op = "divide" /\ Returned
     /\ ValidMesh(Pre) /\ BoundaryLabeled(Pre)
     /\ IsTracedLoop(Pre, DividedLoop)
     /\ last.ret) =>
        /\ LoopNow.m_halfedges = DividedLoop.m_halfedges
        /\ LoopNow.m_length = DividedLoop.m_length
        /\ LoopNow.m_segments = DividedLoop.m_segments

\* The same, for a failure at the first marker (not on the loop) or on the
\* way to the second.
C22_EarlyFailureLeavesLoop ==
    (/\ last.op = "divide" /\ Returned
     /\ ValidMesh(Pre) /\ BoundaryLabeled(Pre)
     /\ IsTracedLoop(Pre, DividedLoop)
     /\ last.ret
     /\ (Len(Markers) <= 2 \/ PosOnLoop(Pre, DividedLoop.m_halfedges, Markers[1]) = 0
            \/ PosOnLoop(Pre, DividedLoop.m_halfedges, Markers[2]) = 0)) =>
        LoopNow = DividedLoop

\* A divide call that fails is always reported: a call whose markers are not
\* all on the loop in loop order returns with the error written.
C22_FailureReported ==
    (/\ last.op = "divide"
     /\ ValidMesh(Pre) /\ BoundaryLabeled(Pre)
     /\ IsTracedLoop(Pre, DividedLoop)
     /\ ~MarkersInLoopOrder(Pre, DividedLoop, Markers)) =>
        (Returned /\ last.ret)

\* -------------------------------------------------------- representatives
\* No vertex of M has a representative that is not an incoming half-edge of
\* a face of M.
RepsSound(M) ==
    \A v \in Range(M.m_verts) : M.vert[v].m_halfedge # NULL => RepValid(M, v)

NoDangling(M) == \A v \in Range(M.m_verts) : M.vert[v].m_halfedge # NULL

\* The mesh as the loader leaves it: all records read, boundary labeled,
\* nothing deleted or added since.
JustLoaded(M) ==
    /\ ValidMesh(M) /\ BoundaryLabeled(M) /\ NoDangling(M)
    /\ M.freed.face = {}
    /\ Len(M.m_faces) = Len(soup.fs)

Neighbours(M, v) == {w \in Range(M.m_verts) : w # v /\ Joined(M, v, w)}

\* C23: on a loaded mesh v.vertices() lists exactly the vertices joined to
\* v by an edge, each once and never v itself, for interior and for boundary
\* vertices.
C23_VertexNeighbours ==
    (last.op = "vertices" /\ JustLoaded(Pre)) =>
        /\ Returned
        /\ Range(last.ret) = Neighbours(Pre, last.arg)
        /\ Len(last.ret) = Cardinality(Neighbours(Pre, last.arg))

\* The weaker statement: every neighbour of v is in the list.
C23_NeighboursListed ==
    (last.op = "vertices" /\ JustLoaded(Pre) /\ Returned) =>
        Neighbours(Pre, last.arg) \subseteq Range(last.ret)

\* ------------------------------------------------------------- fan queries
\* The fan of v is open: one half-edge without a dual enters v and one
\* leaves it.
OpenFan(M, v) ==
    /\ Cardinality({h \in BoundaryHalfEdges(M) : target(M, h) = v}) = 1
    /\ Cardinality({h \in BoundaryHalfEdges(M) : source(M, h) = v}) = 1

AtVertex(M, h, v) == source(M, h) = v \/ target(M, h) = v

\* The last call was a fan query on a vertex flagged boundary whose fan is
\* open, in a valid mesh.
FanCase ==
    /\ last.op \in FanKinds
    /\ ValidMesh(Pre)
    /\ Pre.vert[last.arg].m_boundary
    /\ OpenFan(Pre, last.arg)

\* C24 as stated: each of the four queries returns a half-edge at v that has
\* no dual and leaves it as the representative of v; most_clw_out_halfedge
\* returns the one leaving v, most_ccw_in_halfedge the one entering v.
C24_FanQueries ==
    FanCase =>
        /\ Returned
        /\ dual(Cur, last.ret) = NULL
        /\ AtVertex(Cur, last.ret, last.arg)
        /\ vert[last.arg].m_halfedge = last.ret
        /\ (last.op = "most_clw_out_halfedge" => source(Cur, last.ret) = last.arg)
        /\ (last.op = "most_ccw_in_halfedge" => target(Cur, last.ret) = last.arg)

\* C24 amended: the queries walk to the two ends of the open fan.  The
\* in-queries return a half-edge entering v and leave it as the
\* representative: most_ccw_in_halfedge the one without a dual,
\* most_clw_in_halfedge the one whose next half-edge has no dual.  The
\* out-queries return a half-edge leaving v and leave the representative as
\* it was: most_clw_out_halfedge the one without a dual, most_ccw_out_halfedge
\* the one whose previous half-edge has no dual.
C24_FanEnds ==
    FanCase =>
        /\ Returned
        /\ LiveHalfEdge(Cur, last.ret)
        /\ (last.op = "most_ccw_in_halfedge" =>
                /\ target(Cur, last.ret) = last.arg /\ dual(Cur, last.ret) = NULL
                /\ vert[last.arg].m_halfedge = last.ret)
        /\ (last.op = "most_clw_in_halfedge" =>
                /\ target(Cur, last.ret) = last.arg /\ dual(Cur, next(Cur, last.ret)) = NULL
                /\ vert[last.arg].m_halfedge = last.ret)
        /\ (last.op = "most_clw_out_halfedge" =>
                /\ source(Cur, last.ret) = last.arg /\ dual(Cur, last.ret) = NULL
                /\ vert[last.arg].m_halfedge = Pre.vert[last.arg].m_halfedge)
        /\ (last.op = "most_ccw_out_halfedge" =>
                /\ source(Cur, last.ret) = last.arg /\ dual(Cur, prev(Cur, last.ret)) = NULL
                /\ vert[last.arg].m_halfedge = Pre.vert[last.arg].m_halfedge)
        /\ [Cur EXCEPT !.vert[last.arg].m_halfedge = Pre.vert[last.arg].m_halfedge] = Pre

\* most_clw_in_halfedge on a vertex between two faces: the walk moves the
\* representative, and the half-edge returned has a dual.
C24_Witness ==
    /\ FanCase /\ Returned
    /\ last.op = "most_clw_in_halfedge"
    /\ Cardinality(FacesAt(Pre, last.arg)) = 2
    /\ Pre.vert[last.arg].m_halfedge # last.ret
    /\ dual(Cur, last.ret) # NULL

\* -------------------------------------------------------------- termination
\* label_boundary ran last on M: running it again changes nothing.
LabelRanLast(M) == label_boundary(M, ndebug) = M

\* C25: on a valid mesh built by create_face, delete_face and
\* label_boundary calls with label_boundary last, every fan query and every
\* trace of the boundary loops comes to an end.
C25_QueriesTerminate ==
    (/\ last.op \in FanKinds \cup {"CBoundary"}
     /\ ValidMesh(Pre) /\ LabelRanLast(Pre)) => status # "hung"

\* The same on a mesh from which no face was ever deleted.
C25_TerminateWithoutDelete ==
    (/\ last.op \in FanKinds \cup {"CBoundary"}
     /\ ValidMesh(Pre) /\ LabelRanLast(Pre) /\ Pre.freed.face = {}) => status # "hung"

\* The same for the trace of the boundary loops alone.
C25_TraceTerminates ==
    (last.op = "CBoundary" /\ ValidMesh(Pre) /\ LabelRanLast(Pre)) => status # "hung"

\* --------------------------------------------------- splitEdge, boundary edge
\* C26: splitEdge on an edge whose second half-edge slot is empty returns
\* and leaves the numbers of vertices, edges and faces, the id-to-vertex map
\* and both id counters as they were.
C26_BoundarySplitRejected ==
    (/\ last.op = "splitEdge"
     /\ ValidMesh(Pre)
     /\ Pre.edge[last.arg].m_halfedge[1] = NULL) =>
        /\ Returned
        /\ num_vertices(Cur) = num_vertices(Pre)
        /\ num_edges(Cur) = num_edges(Pre)
        /\ num_faces(Cur) = num_faces(Pre)
        /\ m_map_vert = Pre.m_map_vert
        /\ m_vertex_id = Pre.m_vertex_id
        /\ m_face_id = Pre.m_face_id

\* ------------------------------------------------------ ids of new vertices
\* The vertex a split has created: the object allocated last.
SplitVertex == Len(vert)

\* C27: the vertex returned by splitFace or splitEdge has an id no vertex of
\* the mesh had before the call, and vertex(id) with that id yields it.
C27_NewVertexId ==
    (last.op \in {"splitFace", "splitEdge"} /\ Returned /\ ValidMesh(Pre)) =>
        /\ SplitVertex = Len(Pre.vert) + 1
        /\ \A v \in Range(Pre.m_verts) : Pre.vert[v].m_id # vert[SplitVertex].m_id
        /\ vert[SplitVertex].m_id \in DOMAIN m_map_vert
        /\ m_map_vert[vert[SplitVertex].m_id] = SplitVertex

\* What holds: the new vertex carries the advanced counter as its id.
C27_IdIsCounter ==
    (last.op \in {"splitFace", "splitEdge"} /\ Returned /\ ValidMesh(Pre)) =>
        /\ SplitVertex = Len(Pre.vert) + 1
        /\ m_vertex_id = Pre.m_vertex_id + 1
        /\ vert[SplitVertex].m_id = m_vertex_id

\* --------------------------------------------------------- swapEdge, twice
\* The mesh before the first of the swaps made in a row on the last edge.
Origin == last.origin

\* The two triangles on edge e, each up to cyclic rotation.
TrianglesAt(M, e) ==
    {Rotations(FaceTriple(M, M.hedge[M.edge[e].m_halfedge[i]].m_face)) : i \in {0, 1}}

\* After two swaps: the endpoints and the two triangles of e are those of M0
\* and the edges around them that had two half-edges have two again, mutual
\* duals.
TwiceRestores(M0, M, e) ==
    /\ Interior(M, e)
    /\ EndPoints(M, e) = EndPoints(M0, e)
    /\ TrianglesAt(M, e) = TrianglesAt(M0, e)
    /\ \A q \in QuadEdges(M0, e) : Interior(M0, q) => (Interior(M, q) /\ EdgeWellFormed(M, q))

\* After four swaps: every half-edge has the target, edge and face of M0.
FourTimesRestores(M0, M) ==
    \A h \in 1..Len(M0.hedge) :
        /\ M.hedge[h].m_vertex = M0.hedge[h].m_vertex
        /\ M.hedge[h].m_edge = M0.hedge[h].m_edge
        /\ M.hedge[h].m_face = M0.hedge[h].m_face

\* C29: on an interior edge between triangles (a,b,c) and (b,a,d) of a valid
\* mesh, swapEdge applied twice to the Edge restores its endpoints {a,b} and
\* the oriented triangles {(a,b,c),(b,a,d)}, with every surrounding edge again
\* holding mutually dual half-edges, and applied four times it restores the
\* target, edge and face link of every half-edge.
C29_SwapTwiceRestores ==
    (/\ last.op = "swapEdge"
     /\ ValidMesh(Origin) /\ Interior(Origin, last.arg)) =>
        /\ Returned
        /\ last.count = 2 => TwiceRestores(Origin, Cur, last.arg)
        /\ last.count = 4 => FourTimesRestores(Origin, Cur)

\* What holds: when the calls return, two of them and four of them restore
\* what C29 says.
C29_RestoresOnReturn ==
    (/\ last.op = "swapEdge" /\ Returned
     /\ ValidMesh(Origin) /\ Interior(Origin, last.arg)) =>
        /\ last.count = 2 => TwiceRestores(Origin, Cur, last.arg)
        /\ last.count = 4 => FourTimesRestores(Origin, Cur)

\* ------------------------------------------- adjacency queries after an edit
QueryKinds == FaceKinds \cup {"edges", "vertices"}

\* What the query `kind` on entity x has to list on M: the elements reached
\* from x over the next and dual links of M.
Incident(M, kind, x) ==
    CASE kind = "face.halfedges" -> Range(FaceCycle(M, x))
      [] kind = "face.vertices" -> Range(FaceTriple(M, x))
      [] kind = "face.edges" -> {M.hedge[h].m_edge : h \in Range(FaceCycle(M, x))}
      [] kind = "edges" -> IncidentEdges(M, x)
      [] kind = "vertices" -> Neighbours(M, x)

\* The query of the last call had been answered for the same entity before.
AskedBefore ==
    CASE last.op = "face.halfedges" -> Pre.face[last.arg].m_halfedges # <<>>
      [] last.op = "face.vertices" -> Pre.face[last.arg].m_vertices # <<>>
      [] last.op = "face.edges" -> Pre.face[last.arg].m_edges # <<>>
      [] last.op = "edges" -> Pre.vert[last.arg].m_edges # <<>>
      [] last.op = "vertices" -> Pre.vert[last.arg].m_vertices # <<>>

\* C30: after swapEdge, splitFace or splitEdge has returned on a valid mesh,
\* face.vertices(), face.halfedges(), face.edges(), vertex.edges() and
\* vertex.vertices() return the current incident elements of the entity, also
\* when the same query was called on it before the edit.
C30_QueriesCurrent ==
    (last.op \in QueryKinds /\ nEdit > 0 /\ ValidMesh(Pre)) =>
        /\ Returned
        /\ Range(last.ret) = Incident(Cur, last.op, last.arg)

\* What holds: a query of a face that was not asked about this face before
\* returns the current elements.
C30_FirstFaceQueryCurrent ==
    (last.op \in FaceKinds /\ ~AskedBefore /\ Pre.face[last.arg].m_halfedges = <<>>
     /\ ValidMesh(Pre)) =>
        /\ Returned
        /\ Range(last.ret) = Incident(Cur, last.op, last.arg)
====
